---- MODULE Spec2Model ----
(***************************************************************************)
(* Model of the Discourse source plugin's ingestion core: callAPI (fetch   *)
(* with rate-limit retry), parseTopics / parseTopic / parsePosts, and the  *)
(* handlers handleGetTopic, handleMonitor and handleSearch.                *)
(*                                                                         *)
(* JavaScript values are tagged records, so that values of different       *)
(* JavaScript types can be compared: undefined, null, numbers, strings,    *)
(* arrays and objects.  A string is either opaque text (field s), text     *)
(* whose characters the code inspects (field cs, a sequence of             *)
(* characters), or the text of an ISO-8601 datetime (field iso).           *)
(***************************************************************************)
EXTENDS Integers, Sequences, FiniteSets, TLC

(***************************************************************************)
(* Bounds of the model.                                                    *)
(***************************************************************************)
MaxCalls == 1
MaxBatch == 2
MaxTopics == 2
MaxProgress == 3
MaxSessionCalls == 3
MaxList == 3
MaxForum == 3
MaxServerPage == 2
MaxTicks == 2
MaxPollCalls == 3
StartTime == 7200500

(***************************************************************************)
(* JavaScript values.                                                      *)
(***************************************************************************)
Undef == [t |-> "undefined"]
JNull == [t |-> "null"]
Throw == [t |-> "throw"]
JNum(n) == [t |-> "number", n |-> n]
JStr(s) == [t |-> "string", s |-> s]
JText(cs) == [t |-> "string", cs |-> cs]
JDate(iso) == [t |-> "string", iso |-> iso]
JArr(a) == [t |-> "array", a |-> a]
JObj(o) == [t |-> "object", o |-> o]

Nullish(v) == v.t \in {"undefined", "null"}

\* JavaScript truthiness: undefined, null, 0 and "" are falsy.
Truthy(v) ==
  CASE v.t \in {"undefined", "null"} -> FALSE
    [] v.t = "number" -> v.n # 0
    [] v.t = "string" -> IF "s" \in DOMAIN v THEN v.s # ""
                         ELSE IF "cs" \in DOMAIN v THEN v.cs # <<>>
                         ELSE TRUE
    [] OTHER -> TRUE

\* a || b
Or(a, b) == IF Truthy(a) THEN a ELSE b

\* a ?? b
Coalesce(a, b) == IF Nullish(a) THEN b ELSE a

\* v.k : a TypeError on undefined and null, undefined on a missing property.
Get(v, k) ==
  IF Nullish(v) THEN Throw
  ELSE IF v.t = "object" /\ k \in DOMAIN v.o THEN v.o[k]
  ELSE Undef

\* v?.k
OptGet(v, k) == IF v = Throw THEN Throw ELSE IF Nullish(v) THEN Undef ELSE Get(v, k)

IsNum(v) == v.t = "number"
IsStr(v) == v.t = "string"
IsDatetime(v) == v.t = "string" /\ "iso" \in DOMAIN v

(***************************************************************************)
(* Time.  The clock counts milliseconds.  An ISO-8601 text is the pair of  *)
(* its whole seconds and its fraction: three digits of milliseconds, or    *)
(* NoFrac when the text has no fractional part.                            *)
(***************************************************************************)
NoFrac == -1
ONE_HOUR_MS == 60 * 60 * 1000

\* new Date(ms).toISOString()
toISOString(ms) == [sec |-> ms \div 1000, frac |-> ms % 1000]

\* new Date(text).getTime()
getTime(iso) == iso.sec * 1000 + (IF iso.frac = NoFrac THEN 0 ELSE iso.frac)

(***************************************************************************)
(* Normalizer: the zod schemas and parseTopics / parseTopic / parsePosts.  *)
(***************************************************************************)
IsStringArray(v) == v.t = "array" /\ \A i \in 1..Len(v.a) : IsStr(v.a[i])

\* DiscourseTopicSchema accepts the candidate object c.
TopicSchemaAccepts(c) ==
  /\ IsNum(c.id)
  /\ IsStr(c.title)
  /\ IsStr(c.slug)
  /\ IsNum(c.posts_count)
  /\ (c.views = Undef \/ IsNum(c.views))
  /\ IsNum(c.like_count)
  /\ IsDatetime(c.created_at)
  /\ (c.last_posted_at = JNull \/ IsDatetime(c.last_posted_at))
  /\ (c.category_id = Undef \/ IsNum(c.category_id))
  /\ (c.tags = Undef \/ IsStringArray(c.tags))

\* DiscourseTopicSchema.parse(c): the parsed topic, or Throw (a ZodError).
DiscourseTopicSchema(c) ==
  IF TopicSchemaAccepts(c)
  THEN JObj([c EXCEPT !.tags = IF c.tags = Undef THEN JArr(<<>>) ELSE c.tags])
  ELSE Throw

\* DiscoursePostSchema accepts the candidate object c.
PostSchemaAccepts(c) ==
  /\ IsNum(c.id)
  /\ IsNum(c.topic_id)
  /\ IsStr(c.username)
  /\ (c.cooked = Undef \/ IsStr(c.cooked))
  /\ IsDatetime(c.created_at)
  /\ (c.like_count = Undef \/ IsNum(c.like_count))

\* DiscoursePostSchema.parse(c): the parsed post, or Throw (a ZodError).
DiscoursePostSchema(c) ==
  IF PostSchemaAccepts(c)
  THEN JObj([c EXCEPT !.like_count = IF c.like_count = Undef THEN JNum(0)
                                     ELSE c.like_count])
  ELSE Throw

\* The try / catch around one record: any throw becomes null.
Caught(v) == IF v = Throw THEN JNull ELSE v

\* parseTopic(data); reading a property of null or undefined throws inside
\* the try block.
parseTopic(data) ==
  Caught(IF Nullish(data) THEN Throw
         ELSE DiscourseTopicSchema(
                [id |-> Get(data, "id"),
                 title |-> Get(data, "title"),
                 slug |-> Get(data, "slug"),
                 posts_count |-> Get(data, "posts_count"),
                 views |-> Get(data, "views"),
                 like_count |-> Or(Get(data, "like_count"), JNum(0)),
                 created_at |-> Get(data, "created_at"),
                 last_posted_at |-> Get(data, "last_posted_at"),
                 category_id |-> Get(data, "category_id"),
                 tags |-> Or(Get(data, "tags"), JArr(<<>>))]))

\* The callback parsePosts maps over its input.
parsePost(p) ==
  Caught(IF Nullish(p) THEN Throw
         ELSE DiscoursePostSchema(
                [id |-> Get(p, "id"),
                 topic_id |-> Get(p, "topic_id"),
                 username |-> Get(p, "username"),
                 cooked |-> Or(Get(p, "cooked"), Get(p, "blurb")),
                 created_at |-> Get(p, "created_at"),
                 like_count |-> Or(Get(p, "like_count"), JNum(0))]))

NotNull(v) == v # JNull

\* A parseTopics that gives up on the first record it cannot normalize.
parseTopicsAborting(data) ==
  IF data.t # "array" THEN Throw
  ELSE IF \E i \in 1..Len(data.a) : parseTopic(data.a[i]) = JNull THEN Throw
  ELSE JArr([i \in 1..Len(data.a) |-> parseTopic(data.a[i])])

\* parseTopics(data): data.map(...).filter(...); a value without a map method
\* throws a TypeError.
parseTopics(data) ==
  IF data.t # "array" THEN Throw
  ELSE JArr(SelectSeq([i \in 1..Len(data.a) |-> parseTopic(data.a[i])], NotNull))

\* parsePosts(data)
parsePosts(data) ==
  IF data.t # "array" THEN Throw
  ELSE JArr(SelectSeq([i \in 1..Len(data.a) |-> parsePost(data.a[i])], NotNull))

(***************************************************************************)
(* Fetcher: the pure parts of callAPI.                                     *)
(***************************************************************************)
DigitChar(d) == <<"0", "1", "2", "3", "4", "5", "6", "7", "8", "9">>[d + 1]

RECURSIVE DigitsOf(_)
\* The decimal digits of a natural number, as characters.
DigitsOf(n) ==
  IF n < 10 THEN <<DigitChar(n)>>
  ELSE Append(DigitsOf(n \div 10), DigitChar(n % 10))

\* String(value) for the values the handlers pass as parameters.
String(v) ==
  IF v.t = "number"
  THEN JText(IF v.n < 0 THEN <<"-">> \o DigitsOf(-v.n) ELSE DigitsOf(v.n))
  ELSE v

Param(k, v) == [key |-> k, value |-> v]

\* An entry is kept only when its value is truthy.
IsSuppliedTruthy(p) == Truthy(p.value)

IsSupplied(p) == p.value # Undef /\ p.value # JNull

\* url.searchParams after the forEach over Object.entries(params).
SearchParams(params) ==
  LET kept == SelectSeq(params, IsSupplied)
  IN [i \in 1..Len(kept) |-> Param(kept[i].key, String(kept[i].value))]

\* The request callAPI builds for an endpoint and its parameters.
Request(endpoint, params) == [endpoint |-> endpoint, query |-> SearchParams(params)]

\* A base a URL can be resolved against: an absolute URL.
IsAbsoluteUrl(v) == v.t = "string" /\ Truthy(v)

\* A URL constructor that resolves the endpoint against no base at all.
NewURLRelative(endpoint, baseUrl) == [base |-> baseUrl, path |-> endpoint]

\* new URL(endpoint, baseUrl) for an endpoint that is a path: a TypeError
\* when the base is not an absolute URL.
NewURL(endpoint, baseUrl) ==
  IF IsAbsoluteUrl(baseUrl) THEN [base |-> baseUrl, path |-> endpoint] ELSE Throw

HeaderNames == {"Accept", "Api-Key", "Api-Username"}

\* Headers whose user name is sent only when a user name is given.
HeadersNamedOnly(apiKey, apiUsername) ==
  [h \in HeaderNames |->
     CASE h = "Accept" -> JStr("application/json")
       [] h = "Api-Key" -> IF Truthy(apiKey) THEN apiKey ELSE Undef
       [] h = "Api-Username" ->
            IF Truthy(apiKey) /\ Truthy(apiUsername) THEN apiUsername ELSE Undef]

\* The headers of the request; a header that is not set is undefined.
Headers(apiKey, apiUsername) ==
  [h \in HeaderNames |->
     CASE h = "Accept" -> JStr("application/json")
       [] h = "Api-Key" -> IF Truthy(apiKey) THEN apiKey ELSE Undef
       [] h = "Api-Username" ->
            IF Truthy(apiKey) THEN Or(apiUsername, JStr("system")) ELSE Undef]

RECURSIVE Pow2(_)
Pow2(n) == IF n = 0 THEN 1 ELSE 2 * Pow2(n - 1)

MaxRetries == 3

\* A backoff that grows by one second per retry instead of doubling.
backoffMsLinear(retryCount) == (retryCount + 1) * 1000

\* Math.pow(2, retryCount) * 1000
backoffMs(retryCount) == Pow2(retryCount) * 1000

\* A retry on every error status, not only on 429.
ShouldRetryAnyError(status, retryCount) == status >= 400 /\ retryCount < MaxRetries

\* A test that allows one retry more.
ShouldRetryOnceMore(status, retryCount) == status = 429 /\ retryCount <= MaxRetries

\* response.status === 429 && retryCount < 3
ShouldRetry(status, retryCount) == status = 429 /\ retryCount < MaxRetries

\* A test that takes every status below 500 for a success.
ResponseOkBelow500(status) == status < 500

\* response.ok
ResponseOk(status) == status >= 200 /\ status <= 299

\* The payload returned on a tolerated HTTP failure.
NeutralPayload ==
  JObj([post_stream |-> JObj([posts |-> JArr(<<>>)]),
        topic_list |-> JObj([topics |-> JArr(<<>>)])])

(***************************************************************************)
(* handleMonitor.                                                          *)
(***************************************************************************)
Historical == JStr("historical")
Realtime == JStr("realtime")

\* A default that restarts the history whenever the state carries no count.
MonitorCurrentStateRestarting(st) ==
  IF Nullish(st) \/ ~Truthy(Get(st, "lastTopicId"))
  THEN JObj([phase |-> Historical, lastTopicId |-> Undef, lastChecked |-> Undef])
  ELSE st

\* A default that takes a missing state for a realtime one.
MonitorCurrentStateRealtime(st) ==
  Coalesce(st, JObj([phase |-> Realtime, lastTopicId |-> Undef,
                     lastChecked |-> Undef]))

\* state ?? { phase: "historical", lastTopicId: undefined, lastChecked: undefined }
MonitorCurrentState(st) ==
  Coalesce(st, JObj([phase |-> Historical, lastTopicId |-> Undef,
                     lastChecked |-> Undef]))

\* { ...obj, [k]: v }
Spread(obj, k, v) ==
  JObj([f \in DOMAIN obj.o \cup {k} |-> IF f = k THEN v ELSE obj.o[f]])

\* A page computed with the fixed page size of the search.
MonitorPageOfSearch(c, cs) ==
  IF Truthy(Get(cs, "lastTopicId"))
  THEN Get(cs, "lastTopicId").n \div 20
  ELSE 0

\* The page the historical phase asks for.
MonitorPage(c, cs) ==
  IF Truthy(Get(cs, "lastTopicId"))
  THEN Get(cs, "lastTopicId").n \div c.batchSize
  ELSE 0

\* Parameters that carry a page index in both phases.
MonitorParamsPaged(c, in, cs) ==
  IF Get(cs, "phase") = Historical
  THEN <<Param("category", Get(in, "category")),
         Param("page", JNum(MonitorPage(c, cs)))>>
  ELSE <<Param("category", Get(in, "category")),
         Param("page", JNum(MonitorPage(c, cs))),
         Param("per_page", JNum(c.batchSize))>>

\* Parameters that pass the tags of the input on to the forum.
MonitorParamsTagged(c, in, cs) ==
  IF Get(cs, "phase") = Historical
  THEN <<Param("category", Get(in, "category")),
         Param("tags", Get(in, "tags")),
         Param("page", JNum(MonitorPage(c, cs)))>>
  ELSE <<Param("category", Get(in, "category")),
         Param("tags", Get(in, "tags")),
         Param("per_page", JNum(c.batchSize))>>

\* The parameters handleMonitor passes to callAPI.
MonitorParams(c, in, cs) ==
  IF Get(cs, "phase") = Historical
  THEN <<Param("category", Get(in, "category")),
         Param("page", JNum(MonitorPage(c, cs)))>>
  ELSE <<Param("category", Get(in, "category")),
         Param("per_page", JNum(c.batchSize))>>

\* A historical branch whose progress forgets the previous count.
MonitorHistoricalForgetful(cs, res, t) ==
  LET topics == parseTopics(Or(OptGet(Get(res, "topic_list"), "topics"), JArr(<<>>)))
  IN IF topics = Throw THEN Throw
     ELSE IF Len(topics.a) = 0
     THEN JObj([items |-> JArr(<<>>),
                nextState |-> JObj([phase |-> Realtime,
                                    lastChecked |-> JDate(toISOString(t))])])
     ELSE JObj([items |-> topics,
                nextState |-> Spread(cs, "lastTopicId", JNum(Len(topics.a)))])

\* A historical branch that enters realtime with a watermark one hour back.
MonitorHistoricalBackdated(cs, res, t) ==
  LET topics == parseTopics(Or(OptGet(Get(res, "topic_list"), "topics"), JArr(<<>>)))
  IN IF topics = Throw THEN Throw
     ELSE IF Len(topics.a) = 0
     THEN JObj([items |-> JArr(<<>>),
                nextState |-> JObj([phase |-> Realtime,
                                    lastChecked |->
                                      JDate(toISOString(t - ONE_HOUR_MS))])])
     ELSE JObj([items |-> topics,
                nextState |-> Spread(cs, "lastTopicId",
                                JNum(Or(Get(cs, "lastTopicId"), JNum(0)).n
                                     + Len(topics.a)))])

\* A historical branch that enters realtime by spreading the current state.
MonitorHistoricalCarrying(cs, res, t) ==
  LET topics == parseTopics(Or(OptGet(Get(res, "topic_list"), "topics"), JArr(<<>>)))
  IN IF topics = Throw THEN Throw
     ELSE IF Len(topics.a) = 0
     THEN JObj([items |-> JArr(<<>>),
                nextState |-> Spread(Spread(cs, "phase", Realtime), "lastChecked",
                                     JDate(toISOString(t)))])
     ELSE JObj([items |-> topics,
                nextState |-> Spread(cs, "lastTopicId",
                                JNum(Or(Get(cs, "lastTopicId"), JNum(0)).n
                                     + Len(topics.a)))])

\* A historical branch that hands the state back without advancing it.
MonitorHistoricalStalled(cs, res, t) ==
  LET topics == parseTopics(Or(OptGet(Get(res, "topic_list"), "topics"), JArr(<<>>)))
  IN IF topics = Throw THEN Throw
     ELSE IF Len(topics.a) = 0
     THEN JObj([items |-> JArr(<<>>),
                nextState |-> JObj([phase |-> Realtime,
                                    lastChecked |-> JDate(toISOString(t))])])
     ELSE JObj([items |-> topics, nextState |-> cs])

\* The historical branch after callAPI returned res, at clock reading t.
MonitorHistorical(cs, res, t) ==
  LET topics == parseTopics(Or(OptGet(Get(res, "topic_list"), "topics"), JArr(<<>>)))
  IN IF topics = Throw THEN Throw
     ELSE IF Len(topics.a) = 0
     THEN JObj([items |-> JArr(<<>>),
                nextState |-> JObj([phase |-> Realtime,
                                    lastChecked |-> JDate(toISOString(t))])])
     ELSE JObj([items |-> topics,
                nextState |-> Spread(cs, "lastTopicId",
                                JNum(Or(Get(cs, "lastTopicId"), JNum(0)).n
                                     + Len(topics.a)))])

\* The watermark of the realtime branch.
MonitorWatermark(cs, t) ==
  IF Truthy(Get(cs, "lastChecked"))
  THEN getTime(Get(cs, "lastChecked").iso)
  ELSE t - ONE_HOUR_MS

\* A realtime branch that also emits the topics created at the watermark.
MonitorRealtimeInclusive(cs, res, t) ==
  LET allTopics == parseTopics(Or(OptGet(Get(res, "topic_list"), "topics"), JArr(<<>>)))
      lastChecked == MonitorWatermark(cs, t)
      IsNew(tp) == getTime(tp.o.created_at.iso) >= lastChecked
  IN IF allTopics = Throw THEN Throw
     ELSE JObj([items |-> JArr(SelectSeq(allTopics.a, IsNew)),
                nextState |-> JObj([phase |-> Realtime,
                                    lastChecked |-> JDate(toISOString(t))])])

\* A realtime branch that keeps its watermark when it finds nothing new.
MonitorRealtimeIdleWatermark(cs, res, t) ==
  LET allTopics == parseTopics(Or(OptGet(Get(res, "topic_list"), "topics"), JArr(<<>>)))
      lastChecked == MonitorWatermark(cs, t)
      IsNew(tp) == getTime(tp.o.created_at.iso) > lastChecked
  IN IF allTopics = Throw THEN Throw
     ELSE JObj([items |-> JArr(SelectSeq(allTopics.a, IsNew)),
                nextState |->
                  JObj([phase |-> Realtime,
                        lastChecked |->
                          IF SelectSeq(allTopics.a, IsNew) = <<>>
                          THEN JDate(toISOString(lastChecked))
                          ELSE JDate(toISOString(t))])])

\* A realtime branch that ends the monitoring when it finds nothing new.
MonitorRealtimeEnding(cs, res, t) ==
  LET allTopics == parseTopics(Or(OptGet(Get(res, "topic_list"), "topics"), JArr(<<>>)))
      lastChecked == MonitorWatermark(cs, t)
      IsNew(tp) == getTime(tp.o.created_at.iso) > lastChecked
  IN IF allTopics = Throw THEN Throw
     ELSE JObj([items |-> JArr(SelectSeq(allTopics.a, IsNew)),
                nextState |->
                  IF SelectSeq(allTopics.a, IsNew) = <<>>
                  THEN JNull
                  ELSE JObj([phase |-> Realtime,
                             lastChecked |-> JDate(toISOString(t))])])

\* A realtime branch that emits every topic of the answer.
MonitorRealtimeUnfiltered(cs, res, t) ==
  LET allTopics == parseTopics(Or(OptGet(Get(res, "topic_list"), "topics"), JArr(<<>>)))
  IN IF allTopics = Throw THEN Throw
     ELSE JObj([items |-> allTopics,
                nextState |-> JObj([phase |-> Realtime,
                                    lastChecked |-> JDate(toISOString(t))])])

\* The realtime branch after callAPI returned res, at clock reading t.
MonitorRealtime(cs, res, t) ==
  LET allTopics == parseTopics(Or(OptGet(Get(res, "topic_list"), "topics"), JArr(<<>>)))
      lastChecked == MonitorWatermark(cs, t)
      IsNew(tp) == getTime(tp.o.created_at.iso) > lastChecked
  IN IF allTopics = Throw THEN Throw
     ELSE JObj([items |-> JArr(SelectSeq(allTopics.a, IsNew)),
                nextState |-> JObj([phase |-> Realtime,
                                    lastChecked |-> JDate(toISOString(t))])])

\* What handleMonitor returns once callAPI returned res: a value, or Throw.
MonitorReturn(st, res, t) ==
  LET cs == MonitorCurrentState(st)
  IN IF Get(cs, "phase") = Historical
     THEN MonitorHistorical(cs, res, t)
     ELSE MonitorRealtime(cs, res, t)

(***************************************************************************)
(* handleGetTopic.                                                         *)
(***************************************************************************)
\* `/t/${topicId}.json`
GetTopicEndpoint(topicId) == <<"/t/">> \o DigitsOf(topicId) \o <<".json">>

\* What handleGetTopic returns once callAPI returned res: a value, or Throw.
GetTopicReturn(res) ==
  LET topic == parseTopic(res)
      posts == parsePosts(Or(OptGet(Get(res, "post_stream"), "posts"), JArr(<<>>)))
  IN IF posts = Throw THEN Throw
     ELSE JObj([topic |-> topic, posts |-> posts])

(***************************************************************************)
(* handleSearch.                                                           *)
(***************************************************************************)
SearchPageSize == 20

RECURSIVE BeforeT(_)
\* text.split("T")[0]
BeforeT(cs) ==
  IF cs = <<>> \/ Head(cs) = "T" THEN <<>> ELSE <<Head(cs)>> \o BeforeT(Tail(cs))

\* A query that appends the whole after timestamp.
SearchQueryFullTimestamp(in) ==
  LET username == OptGet(Get(in, "filters"), "username")
      after == OptGet(Get(in, "filters"), "after")
      q0 == Get(in, "query").cs
      q1 == IF Truthy(username) THEN q0 \o <<" ", "@">> \o username.cs ELSE q0
      q2 == IF Truthy(after)
            THEN q1 \o <<" ", "a", "f", "t", "e", "r", ":">> \o after.cs
            ELSE q1
  IN JText(q2)

\* A query that also carries the minLikes filter.
SearchQueryWithLikes(in) ==
  LET username == OptGet(Get(in, "filters"), "username")
      after == OptGet(Get(in, "filters"), "after")
      minLikes == OptGet(Get(in, "filters"), "minLikes")
      q0 == Get(in, "query").cs
      q1 == IF Truthy(username) THEN q0 \o <<" ", "@">> \o username.cs ELSE q0
      q2 == IF Truthy(after)
            THEN q1 \o <<" ", "a", "f", "t", "e", "r", ":">> \o BeforeT(after.cs)
            ELSE q1
      q3 == IF Truthy(minLikes)
            THEN q2 \o <<" ", "m", "i", "n", "_", "l", "i", "k", "e", "s", ":">>
                    \o DigitsOf(minLikes.n)
            ELSE q2
  IN JText(q3)

\* The query text handleSearch sends.
SearchQuery(in) ==
  LET username == OptGet(Get(in, "filters"), "username")
      after == OptGet(Get(in, "filters"), "after")
      q0 == Get(in, "query").cs
      q1 == IF Truthy(username) THEN q0 \o <<" ", "@">> \o username.cs ELSE q0
      q2 == IF Truthy(after)
            THEN q1 \o <<" ", "a", "f", "t", "e", "r", ":">> \o BeforeT(after.cs)
            ELSE q1
  IN JText(q2)

\* A page computed with a batch size of the context instead of the page size.
SearchPageOfBatch(cs) ==
  IF Truthy(Get(cs, "lastTopicId"))
  THEN Get(cs, "lastTopicId").n \div MaxBatch
  ELSE 0

\* The page handleSearch asks for.
SearchPage(cs) ==
  IF Truthy(Get(cs, "lastTopicId"))
  THEN Get(cs, "lastTopicId").n \div SearchPageSize
  ELSE 0

\* The parameters handleSearch passes to callAPI.
SearchParamsOf(in, st) ==
  <<Param("q", SearchQuery(in)),
    Param("page", JNum(SearchPage(MonitorCurrentState(st))))>>

\* A search that goes on only after a page of more than the page size.
SearchReturnStrict(st, res) ==
  LET cs == MonitorCurrentState(st)
      topics == parseTopics(Or(Get(res, "topics"), JArr(<<>>)))
      posts == parsePosts(Or(Get(res, "posts"), JArr(<<>>)))
  IN IF topics = Throw \/ posts = Throw THEN Throw
     ELSE JObj([topics |-> topics,
                posts |-> posts,
                nextState |->
                  IF Len(topics.a) > SearchPageSize
                  THEN Spread(cs, "lastTopicId",
                              JNum(Or(Get(cs, "lastTopicId"), JNum(0)).n
                                   + Len(topics.a)))
                  ELSE JNull])

\* A search that hands the supplied state back when there is no more.
SearchReturnResuming(st, res) ==
  LET cs == MonitorCurrentState(st)
      topics == parseTopics(Or(Get(res, "topics"), JArr(<<>>)))
      posts == parsePosts(Or(Get(res, "posts"), JArr(<<>>)))
  IN IF topics = Throw \/ posts = Throw THEN Throw
     ELSE JObj([topics |-> topics,
                posts |-> posts,
                nextState |->
                  IF Len(topics.a) >= SearchPageSize
                  THEN Spread(cs, "lastTopicId",
                              JNum(Or(Get(cs, "lastTopicId"), JNum(0)).n
                                   + Len(topics.a)))
                  ELSE st])

\* What handleSearch returns once callAPI returned res: a value, or Throw.
SearchReturn(st, res) ==
  LET cs == MonitorCurrentState(st)
      topics == parseTopics(Or(Get(res, "topics"), JArr(<<>>)))
      posts == parsePosts(Or(Get(res, "posts"), JArr(<<>>)))
  IN IF topics = Throw \/ posts = Throw THEN Throw
     ELSE JObj([topics |-> topics,
                posts |-> posts,
                nextState |->
                  IF Len(topics.a) >= SearchPageSize
                  THEN Spread(cs, "lastTopicId",
                              JNum(Or(Get(cs, "lastTopicId"), JNum(0)).n
                                   + Len(topics.a)))
                  ELSE JNull])

(***************************************************************************)
(* Inputs of the model: contexts, handler inputs, supplied states and the  *)
(* bodies the forum answers with.                                          *)
(***************************************************************************)
Contexts == {[batchSize |-> b] : b \in 1..MaxBatch}

EmptyObject == JObj(<<>>)

MonitorInputs == {EmptyObject, JObj([category |-> JStr("governance")])}

TopicIds == {7}

\* The monitor states a caller may hold at clock reading t when its session
\* starts: none, or a state of either phase saved earlier.
SuppliedMonitorStates(t) ==
  {JNull, JObj([phase |-> Historical]), JObj([phase |-> Realtime])}
    \cup {JObj([phase |-> Historical, lastTopicId |-> JNum(p)]) : p \in 0..MaxProgress}
    \cup {JObj([phase |-> Historical, lastTopicId |-> JNum(MaxProgress),
                lastChecked |-> Undef])}
    \cup {JObj([phase |-> Realtime, lastChecked |-> JDate(toISOString(t - 1))])}
    \cup {JObj([phase |-> Realtime,
                lastChecked |-> JDate([sec |-> t \div 1000, frac |-> NoFrac])])}

SearchState(p) == JObj([phase |-> Historical, lastTopicId |-> JNum(p)])

Chars(str) == JText(str)

SearchPlain == JObj([query |-> Chars(<<"n", "e", "a", "r">>)])

SearchFiltered ==
  JObj([query |-> Chars(<<"n", "e", "a", "r">>),
        filters |-> JObj([username |-> Chars(<<"b", "o", "b">>),
                          minLikes |-> JNum(5),
                          after |-> Chars(<<"2", "4", "-", "0", "1", "T", "0", "9">>)])])

\* The searches a caller starts or resumes: an input and the state supplied.
SearchCalls ==
  {<<SearchPlain, JNull>>, <<SearchFiltered, SearchState(20)>>,
   <<SearchPlain, SearchState(45)>>}

\* A raw topic record as the forum sends it.
RawTopic(id, iso) ==
  JObj([id |-> JNum(id), title |-> JStr("title"), slug |-> JStr("slug"),
        posts_count |-> JNum(3), views |-> JNum(10), like_count |-> JNum(2),
        created_at |-> JDate(iso), last_posted_at |-> JNull,
        category_id |-> JNum(1), tags |-> JArr(<<JStr("tag")>>)])

\* A raw topic record without last_posted_at, which the schema requires.
RawTopicNoLastPosted(id, iso) ==
  JObj([id |-> JNum(id), title |-> JStr("title"), slug |-> JStr("slug"),
        posts_count |-> JNum(3), created_at |-> JDate(iso)])

\* A raw topic record without the defaulted fields like_count and tags.
RawTopicMinimal(id, iso) ==
  JObj([id |-> JNum(id), title |-> JStr("title"), slug |-> JStr("slug"),
        posts_count |-> JNum(3), created_at |-> JDate(iso),
        last_posted_at |-> JDate(iso)])

RawPost(id, topicId, iso) ==
  JObj([id |-> JNum(id), topic_id |-> JNum(topicId), username |-> JStr("alice"),
        cooked |-> JStr("<p>hi</p>"), created_at |-> JDate(iso),
        like_count |-> JNum(1)])

RawPostBlurb(id, topicId, iso) ==
  JObj([id |-> JNum(id), topic_id |-> JNum(topicId), username |-> JStr("bob"),
        blurb |-> JStr("hi..."), created_at |-> JDate(iso)])

\* The records a /latest.json page is made of, around the watermark w.
TopicSpecimens(w) ==
  {RawTopic(1, toISOString(w - 1)), RawTopicMinimal(2, toISOString(w)),
   RawTopic(3, toISOString(w + 1))}

\* All sequences of at most n elements of S.
SeqsUpTo(S, n) == UNION {[1..k -> S] : k \in 0..n}

LatestBody(topics) == JObj([topic_list |-> JObj([topics |-> topics])])

\* Decoded bodies of odd shape for /latest.json.
OddLatestBodies ==
  {JNull, JNum(5), EmptyObject, JObj([topic_list |-> JNull]),
   LatestBody(JNull), LatestBody(JStr("none"))}

LatestBodies(w) ==
  OddLatestBodies
    \cup {LatestBody(JArr(<<RawTopicNoLastPosted(4, toISOString(w + 1))>>)),
          LatestBody(JArr(<<JNull, RawTopic(3, toISOString(w + 1)), JNum(5)>>))}
    \cup {LatestBody(JArr(l)) : l \in SeqsUpTo(TopicSpecimens(w), MaxTopics)}

\* Decoded bodies for /t/{id}.json.
TopicBodies(t) ==
  LET iso == toISOString(t)
      tp == RawTopic(7, iso).o
      withPosts(ps) == JObj([f \in DOMAIN tp \cup {"post_stream"} |->
                               IF f = "post_stream" THEN JObj([posts |-> ps])
                               ELSE tp[f]])
  IN {JNull, JNum(5), EmptyObject, RawTopic(7, iso),
      withPosts(JArr(<<RawPost(1, 7, iso), RawPostBlurb(2, 7, iso), JNull>>)),
      withPosts(JStr("none")), withPosts(JNull),
      JObj([post_stream |-> JNull]),
      JObj([post_stream |-> JObj([posts |-> JArr(<<RawPost(1, 7, iso)>>)])])}

\* Decoded bodies for /search.json.
SearchBodies(t) ==
  LET iso == toISOString(t)
      page(n) == JArr([i \in 1..n |-> RawTopic(i, iso)])
  IN {JNull, JNum(5), EmptyObject,
      JObj([topics |-> page(SearchPageSize), posts |-> JArr(<<RawPost(1, 1, iso)>>)]),
      JObj([topics |-> page(SearchPageSize + 1)]),
      JObj([topics |-> page(2), posts |-> JArr(<<RawPostBlurb(1, 1, iso), JNull>>)]),
      JObj([topics |-> JStr("none")]),
      JObj([posts |-> EmptyObject])}

\* A body that is not JSON.
Undecodable == [t |-> "undecodable"]

Statuses == {200, 404, 429, 500}

(***************************************************************************)
(* The state machine: one invocation of a handler at a time, suspended at  *)
(* the HTTP call, the backoff sleep and the decoding of the body.          *)
(***************************************************************************)
VARIABLES
  pc,          \* "idle", "fetch", "sleep", "json", "done" or "failed"
  op,          \* the handler running: "getTopic", "monitor", "search"
  ctx,         \* the plugin context
  input,       \* the input of the invocation
  state,       \* the state the caller supplied
  request,     \* the request of the HTTP attempts of the invocation
  retryCount,  \* callAPI's retryCount
  attempts,    \* HTTP attempts issued by the invocation
  outcomes,    \* outcome of each finished HTTP attempt of the invocation
  sleeps,      \* backoff sleeps of the invocation, in ms
  body,        \* body of the last response
  payload,     \* what callAPI returned
  result,      \* what the handler returned, or its failure
  now,         \* the clock, in ms
  held,        \* the monitor state the caller holds, Fresh before its first call
  calls,       \* invocations so far
  heap,        \* the objects allocated so far, by reference
  parked,      \* the invocation of another session that is suspended, if any
  forum,       \* the topics of the forum, newest first, and its page size
  log          \* the calls the session completed so far

vars == <<pc, op, ctx, input, state, request, retryCount, attempts, outcomes,
          sleeps, body, payload, result, now, held, calls, heap, parked,
          forum, log>>

\* The outcome of an HTTP attempt: a response with a status, or a rejection.
Answered(status) == [kind |-> "response", status |-> status]
Rejected(cause) == [kind |-> "rejected", cause |-> cause]

\* The caller has not called handleMonitor yet.
Fresh == [t |-> "fresh"]

None == [kind |-> "none"]

\* No forum is modelled: the answers are any bodies.
NoForum == [topics |-> <<>>, pageSize |-> 1, born |-> <<>>]
Value(v) == [kind |-> "value", v |-> v]
Failure(cause) == [kind |-> "failure", cause |-> cause]

Init ==
  /\ pc = "idle"
  /\ op = "none"
  /\ ctx \in Contexts
  /\ input = Undef
  /\ state = JNull
  /\ request = Request(<<>>, <<>>)
  /\ retryCount = 0
  /\ attempts = 0
  /\ outcomes = <<>>
  /\ sleeps = <<>>
  /\ body = Undecodable
  /\ payload = None
  /\ result = None
  /\ now = StartTime
  /\ held = Fresh
  /\ calls = 0
  /\ heap = <<>>
  /\ forum = NoForum
  /\ log = <<>>
  /\ parked = None

\* The first HTTP attempt of callAPI(endpoint, params).
Issue(o, in, st, endpoint, params) ==
  /\ pc = "idle"
  /\ calls < MaxCalls
  /\ pc' = "fetch"
  /\ op' = o
  /\ input' = in
  /\ state' = st
  /\ request' = Request(endpoint, params)
  /\ retryCount' = 0
  /\ attempts' = 1
  /\ outcomes' = <<>>
  /\ sleeps' = <<>>
  /\ body' = Undecodable
  /\ payload' = None
  /\ result' = None
  /\ calls' = calls + 1
  /\ UNCHANGED <<forum, log, heap, parked, ctx, now, held>>

InvokeGetTopic(topicId) ==
  Issue("getTopic", JNum(topicId), JNull, GetTopicEndpoint(topicId), <<>>)

InvokeMonitor(in, st) ==
  Issue("monitor", in, st, <<"/latest.json">>,
        MonitorParams(ctx, in, MonitorCurrentState(st)))

InvokeSearch(in, st) ==
  Issue("search", in, st, <<"/search.json">>, SearchParamsOf(in, st))

\* The rest of the handler once callAPI returned res, at clock reading t.
HandlerReturn(res, t) ==
  CASE op = "getTopic" -> GetTopicReturn(res)
    [] op = "monitor" -> MonitorReturn(state, res, t)
    [] op = "search" -> SearchReturn(state, res)
    [] op = "callAPI" -> res

\* callAPI returns res and the handler runs to its end at clock reading t.
Finish(res, t) ==
  LET r == HandlerReturn(res, t)
  IN /\ payload' = Value(res)
     /\ IF r = Throw
        THEN pc' = "failed" /\ result' = Failure("TypeError")
        ELSE pc' = "done" /\ result' = Value(r)

\* A rejection that is degraded to the neutral payload like an HTTP error.
FetchRejectsDegraded(cause) ==
  /\ pc = "fetch"
  /\ outcomes' = Append(outcomes, Rejected(cause))
  /\ Finish(NeutralPayload, now)
  /\ UNCHANGED <<forum, log, heap, parked, op, ctx, input, state, request, retryCount, attempts, sleeps,
                 body, now, held, calls>>

\* fetch rejects: a connection failure or the timeout signal.
FetchRejects(cause) ==
  /\ pc = "fetch"
  /\ pc' = "failed"
  /\ outcomes' = Append(outcomes, Rejected(cause))
  /\ result' = Failure(cause)
  /\ UNCHANGED <<forum, log, heap, parked, op, ctx, input, state, request, retryCount, attempts, sleeps,
                 body, payload, now, held, calls>>

\* A 429 answer that is retried at once, without the backoff sleep.
FetchRateLimitedEager(status) ==
  /\ pc = "fetch"
  /\ ShouldRetry(status, retryCount)
  /\ pc' = "fetch"
  /\ outcomes' = Append(outcomes, Answered(status))
  /\ retryCount' = retryCount + 1
  /\ attempts' = attempts + 1
  /\ UNCHANGED <<forum, log, heap, parked, op, ctx, input, state, request, sleeps, body, payload, result,
                 now, held, calls>>

\* A 429 answer while retries remain: callAPI starts the backoff sleep.
FetchRateLimited(status) ==
  /\ pc = "fetch"
  /\ ShouldRetry(status, retryCount)
  /\ pc' = "sleep"
  /\ outcomes' = Append(outcomes, Answered(status))
  /\ sleeps' = Append(sleeps, backoffMs(retryCount))
  /\ UNCHANGED <<forum, log, heap, parked, op, ctx, input, state, request, retryCount, attempts, body,
                 payload, result, now, held, calls>>

\* The sleep ends and callAPI calls itself with retryCount + 1.
SleepElapses ==
  /\ pc = "sleep"
  /\ pc' = "fetch"
  /\ now' = now + sleeps[Len(sleeps)]
  /\ retryCount' = retryCount + 1
  /\ attempts' = attempts + 1
  /\ UNCHANGED <<forum, log, heap, parked, op, ctx, input, state, request, outcomes, sleeps, body, payload,
                 result, held, calls>>

\* An answer that is not retried and is not ok: the neutral payload.
FetchHttpError(status) ==
  /\ pc = "fetch"
  /\ ~ShouldRetry(status, retryCount)
  /\ ~ResponseOk(status)
  /\ outcomes' = Append(outcomes, Answered(status))
  /\ Finish(NeutralPayload, now)
  /\ UNCHANGED <<forum, log, heap, parked, op, ctx, input, state, request, retryCount, attempts, sleeps,
                 body, now, held, calls>>

\* An ok answer: callAPI starts decoding the body.
FetchOk(status, b) ==
  /\ pc = "fetch"
  /\ ~ShouldRetry(status, retryCount)
  /\ ResponseOk(status)
  /\ pc' = "json"
  /\ outcomes' = Append(outcomes, Answered(status))
  /\ body' = b
  /\ UNCHANGED <<forum, log, heap, parked, op, ctx, input, state, request, retryCount, attempts, sleeps,
                 payload, result, now, held, calls>>

\* response.json() resolves with the decoded body.
JsonResolves ==
  /\ pc = "json"
  /\ body # Undecodable
  /\ Finish(body, now)
  /\ UNCHANGED <<forum, log, heap, parked, op, ctx, input, state, request, retryCount, attempts, outcomes,
                 sleeps, body, now, held, calls>>

\* A decoding failure that is degraded to the neutral payload.
JsonRejectsDegraded ==
  /\ pc = "json"
  /\ body = Undecodable
  /\ Finish(NeutralPayload, now)
  /\ UNCHANGED <<forum, log, heap, parked, op, ctx, input, state, request, retryCount, attempts, outcomes,
                 sleeps, body, now, held, calls>>

\* response.json() rejects.
JsonRejects ==
  /\ pc = "json"
  /\ body = Undecodable
  /\ pc' = "failed"
  /\ result' = Failure("decode")
  /\ UNCHANGED <<forum, log, heap, parked, op, ctx, input, state, request, retryCount, attempts, outcomes,
                 sleeps, body, payload, now, held, calls>>

\* The caller takes the outcome; it keeps the state a monitor call returned.
Return ==
  /\ pc \in {"done", "failed"}
  /\ pc' = "idle"
  /\ held' = IF pc = "done" /\ op = "monitor" THEN result.v.o.nextState ELSE held
  /\ op' = "none"
  /\ input' = Undef
  /\ state' = JNull
  /\ request' = Request(<<>>, <<>>)
  /\ retryCount' = 0
  /\ attempts' = 0
  /\ outcomes' = <<>>
  /\ sleeps' = <<>>
  /\ body' = Undecodable
  /\ payload' = None
  /\ result' = None
  /\ UNCHANGED <<forum, log, heap, parked, ctx, now, calls>>

\* The states the caller may supply to handleMonitor: the one the previous
\* monitor call returned or, on the first call, any state saved earlier.
HeldMonitorStates == IF held = Fresh THEN SuppliedMonitorStates(now) ELSE {held}

\* The bodies the forum may answer the pending request with.
Bodies ==
  CASE op = "getTopic" -> TopicBodies(now)
    [] op = "monitor" -> LatestBodies(MonitorWatermark(MonitorCurrentState(state), now))
    [] op = "search" -> SearchBodies(now)
    [] OTHER -> {}

Next ==
  \/ \E topicId \in TopicIds : InvokeGetTopic(topicId)
  \/ \E in \in MonitorInputs, st \in HeldMonitorStates : InvokeMonitor(in, st)
  \/ \E c \in SearchCalls : InvokeSearch(c[1], c[2])
  \/ \E cause \in {"network", "timeout"} : FetchRejects(cause)
  \/ \E status \in Statuses : FetchRateLimited(status)
  \/ SleepElapses
  \/ \E status \in Statuses : FetchHttpError(status)
  \/ \E status \in Statuses, b \in Bodies \cup {Undecodable} : FetchOk(status, b)
  \/ JsonResolves
  \/ JsonRejects
  \/ Return

Spec == Init /\ [][Next]_vars

(***************************************************************************)
(* A monitor session: the caller starts with no state and feeds the state  *)
(* each call returned into the next call.                                  *)
(***************************************************************************)
SessionInput == JObj([category |-> JStr("governance")])

\* The pages /latest.json answers a session with, around the watermark w.
SessionBodies(w) ==
  {EmptyObject, LatestBody(JArr(<<>>)),
   LatestBody(JArr(<<RawTopic(1, toISOString(w))>>)),
   LatestBody(JArr(<<RawTopic(1, toISOString(w)), RawTopic(3, toISOString(w + 1))>>))}

\* calls counts up to MaxCalls: a session is given MaxSessionCalls calls.
SessionInit ==
  /\ pc = "idle"
  /\ op = "none"
  /\ ctx \in Contexts
  /\ input = Undef
  /\ state = JNull
  /\ request = Request(<<>>, <<>>)
  /\ retryCount = 0
  /\ attempts = 0
  /\ outcomes = <<>>
  /\ sleeps = <<>>
  /\ body = Undecodable
  /\ payload = None
  /\ result = None
  /\ now = StartTime
  /\ held = Fresh
  /\ calls = MaxCalls - MaxSessionCalls
  /\ heap = <<>>
  /\ forum = NoForum
  /\ log = <<>>
  /\ parked = None

\* The state the session supplies: none at first, then the one it holds.
SessionStates == IF held = Fresh THEN {JNull} ELSE {held}

SessionNext ==
  \/ \E st \in SessionStates : InvokeMonitor(SessionInput, st)
  \/ \E cause \in {"network", "timeout"} : FetchRejects(cause)
  \/ \E status \in Statuses : FetchRateLimited(status)
  \/ SleepElapses
  \/ \E status \in Statuses : FetchHttpError(status)
  \/ \E status \in Statuses,
        b \in SessionBodies(MonitorWatermark(MonitorCurrentState(state), now))
               \cup {Undecodable} : FetchOk(status, b)
  \/ JsonResolves
  \/ JsonRejects
  \/ Return

Session == SessionInit /\ [][SessionNext]_vars

(***************************************************************************)
(* Searches: one handleSearch invocation at a time, over the filters a     *)
(* caller may give and the states it may resume from.                      *)
(***************************************************************************)
SearchUsernames == {Undef, Chars(<<>>), Chars(<<"b", "o", "b">>)}

SearchMinLikes == {Undef, JNum(5)}

SearchAfters ==
  {Undef, Chars(<<"2", "4", "-", "0", "1", "T", "0", "9">>),
   Chars(<<"2", "4", "0", "1">>)}

SearchInputs ==
  {SearchPlain}
    \cup {JObj([query |-> Chars(<<"n", "e", "a", "r">>),
                filters |-> JObj([username |-> u, minLikes |-> m, after |-> a])]) :
            u \in SearchUsernames, m \in SearchMinLikes, a \in SearchAfters}

SearchStates ==
  {JNull, JObj([phase |-> Historical]), SearchState(20), SearchState(45)}

SearchesNext ==
  \/ \E in \in SearchInputs, st \in SearchStates : InvokeSearch(in, st)
  \/ \E cause \in {"network", "timeout"} : FetchRejects(cause)
  \/ \E status \in Statuses : FetchRateLimited(status)
  \/ SleepElapses
  \/ \E status \in Statuses : FetchHttpError(status)
  \/ \E status \in Statuses, b \in SearchBodies(now) \cup {Undecodable} :
        FetchOk(status, b)
  \/ JsonResolves
  \/ JsonRejects
  \/ Return

Searches == Init /\ [][SearchesNext]_vars

(***************************************************************************)
(* Normalizer: parseTopics and parsePosts applied to raw lists.            *)
(***************************************************************************)
\* The elements of the raw lists: valid and invalid topics and posts, and
\* elements that are no records.
RawElements ==
  LET iso == toISOString(StartTime)
  IN {JNull, Undef, EmptyObject, RawTopic(1, iso), RawTopicNoLastPosted(4, iso),
      RawPost(1, 7, iso), RawPostBlurb(2, 7, iso)}

RawLists == {JArr(l) : l \in SeqsUpTo(RawElements, MaxList)}

\* parseTopics(data) is called.
ParseTopicsCall(data) ==
  /\ pc = "idle"
  /\ calls < MaxCalls
  /\ op' = "parseTopics"
  /\ input' = data
  /\ LET r == parseTopics(data)
     IN IF r = Throw
        THEN pc' = "failed" /\ result' = Failure("TypeError")
        ELSE pc' = "done" /\ result' = Value(r)
  /\ calls' = calls + 1
  /\ UNCHANGED <<forum, log, heap, parked, ctx, state, request, retryCount, attempts, outcomes, sleeps,
                 body, payload, now, held>>

\* parsePosts(data) is called.
ParsePostsCall(data) ==
  /\ pc = "idle"
  /\ calls < MaxCalls
  /\ op' = "parsePosts"
  /\ input' = data
  /\ LET r == parsePosts(data)
     IN IF r = Throw
        THEN pc' = "failed" /\ result' = Failure("TypeError")
        ELSE pc' = "done" /\ result' = Value(r)
  /\ calls' = calls + 1
  /\ UNCHANGED <<forum, log, heap, parked, ctx, state, request, retryCount, attempts, outcomes, sleeps,
                 body, payload, now, held>>

NormalizerNext ==
  \/ \E data \in RawLists : ParseTopicsCall(data)
  \/ \E data \in RawLists : ParsePostsCall(data)
  \/ Return

Normalizer == Init /\ [][NormalizerNext]_vars

(***************************************************************************)
(* Records: parseTopic applied to one raw record and parsePosts to a list  *)
(* of one raw post, over records that differ from a valid one in a field.  *)
(***************************************************************************)
\* The values a field of a raw record may have; undefined is a missing field.
FieldValues ==
  {Undef, JNull, JNum(0), JNum(3), JStr(""), JStr("text"),
   JDate(toISOString(StartTime)), JArr(<<>>), JArr(<<JStr("tag")>>),
   JArr(<<JNum(1)>>)}

TopicFields ==
  {"id", "title", "slug", "posts_count", "views", "like_count", "created_at",
   "last_posted_at", "category_id", "tags"}

\* Raw topics: values that are no records, and a valid record with one field
\* replaced.
RawTopicRecords ==
  {JNull, Undef, JNum(5), EmptyObject}
    \cup {Spread(RawTopic(1, toISOString(StartTime)), f, v) :
            f \in TopicFields, v \in FieldValues}

\* The values of the cooked and blurb fields of a raw post.
ContentValues == {Undef, JNull, JStr(""), JStr("<p>hi</p>"), JNum(3)}

\* Raw posts: every pair of cooked and blurb, and a valid record with another
\* field replaced.
RawPostRecords ==
  {Spread(Spread(RawPost(1, 7, toISOString(StartTime)), "cooked", c), "blurb", b) :
     c \in ContentValues, b \in ContentValues \cup {JStr("hi...")}}
    \cup {Spread(RawPost(1, 7, toISOString(StartTime)), f, v) :
            f \in {"id", "topic_id", "username", "created_at", "like_count"},
            v \in FieldValues}

\* parseTopic(data) is called.
ParseTopicCall(data) ==
  /\ pc = "idle"
  /\ calls < MaxCalls
  /\ op' = "parseTopic"
  /\ input' = data
  /\ LET r == parseTopic(data)
     IN IF r = Throw
        THEN pc' = "failed" /\ result' = Failure("TypeError")
        ELSE pc' = "done" /\ result' = Value(r)
  /\ calls' = calls + 1
  /\ UNCHANGED <<forum, log, heap, parked, ctx, state, request, retryCount, attempts, outcomes, sleeps,
                 body, payload, now, held>>

RecordsNext ==
  \/ \E data \in RawTopicRecords : ParseTopicCall(data)
  \/ \E p \in RawPostRecords : ParsePostsCall(JArr(<<p>>))
  \/ Return

Records == Init /\ [][RecordsNext]_vars

(***************************************************************************)
(* Direct calls of callAPI (testHelpers.callAPI) with any base URL,        *)
(* credentials and parameters.                                             *)
(***************************************************************************)

BaseUrls == {Undef, JStr(""), JStr("https://discourse.example.com")}
ApiKeys == {Undef, JStr(""), JStr("test-api-key")}
ApiUsernames == {Undef, JStr(""), JStr("test-user")}

\* The arguments baseUrl, apiKey and apiUsername of the call.
CallContexts ==
  {[baseUrl |-> b, apiKey |-> k, apiUsername |-> u] :
     b \in BaseUrls, k \in ApiKeys, u \in ApiUsernames}

PageValues == {Undef, JNull, JNum(0), JNum(12)}
CategoryValues == {Undef, JNull, JStr(""), JStr("general")}

\* The params argument: omitted, or an object of one or two entries.
ParamLists ==
  {<<>>}
    \cup {<<Param("page", v)>> : v \in PageValues}
    \cup {<<Param("page", v), Param("category", w)>> :
            v \in PageValues, w \in CategoryValues}

RequestsInit ==
  /\ pc = "idle"
  /\ op = "none"
  /\ ctx \in CallContexts
  /\ input = Undef
  /\ state = JNull
  /\ request = Request(<<>>, <<>>)
  /\ retryCount = 0
  /\ attempts = 0
  /\ outcomes = <<>>
  /\ sleeps = <<>>
  /\ body = Undecodable
  /\ payload = None
  /\ result = None
  /\ now = StartTime
  /\ held = Fresh
  /\ calls = MaxCalls - 1
  /\ heap = <<>>
  /\ forum = NoForum
  /\ log = <<>>
  /\ parked = None

\* callAPI(ctx.baseUrl, timeout, ctx.apiKey, ctx.apiUsername, endpoint,
\* params) up to its first fetch: the URL, the headers and the first attempt,
\* or the TypeError of the URL constructor.
InvokeCallAPI(endpoint, params) ==
  /\ pc = "idle"
  /\ calls < MaxCalls
  /\ op' = "callAPI"
  /\ input' = [endpoint |-> endpoint, params |-> params]
  /\ state' = JNull
  /\ IF NewURL(endpoint, ctx.baseUrl) = Throw
     THEN /\ pc' = "failed"
          /\ request' = Request(<<>>, <<>>)
          /\ attempts' = 0
          /\ result' = Failure("TypeError")
     ELSE /\ pc' = "fetch"
          /\ request' = [endpoint |-> NewURL(endpoint, ctx.baseUrl).path,
                         query |-> SearchParams(params),
                         base |-> NewURL(endpoint, ctx.baseUrl).base,
                         headers |-> Headers(ctx.apiKey, ctx.apiUsername)]
          /\ attempts' = 1
          /\ result' = None
  /\ retryCount' = 0
  /\ outcomes' = <<>>
  /\ sleeps' = <<>>
  /\ body' = Undecodable
  /\ payload' = None
  /\ calls' = calls + 1
  /\ UNCHANGED <<forum, log, heap, parked, ctx, now, held>>

RequestsNext ==
  \/ \E params \in ParamLists : InvokeCallAPI(<<"/test.json">>, params)
  \/ \E cause \in {"network", "timeout"} : FetchRejects(cause)
  \/ \E status \in Statuses : FetchRateLimited(status)
  \/ SleepElapses
  \/ \E status \in Statuses : FetchHttpError(status)
  \/ \E status \in Statuses, b \in {EmptyObject, Undecodable} : FetchOk(status, b)
  \/ JsonResolves
  \/ JsonRejects
  \/ Return

Requests == RequestsInit /\ [][RequestsNext]_vars

(***************************************************************************)
(* Object identity: the caller's state is an object on the heap and the    *)
(* handlers get a reference to it.                                         *)
(***************************************************************************)

\* A reference to the object at a position of the heap.
Ref(i) == [t |-> "ref", at |-> i]

\* An assignment to the object cur instead of a new object.
ObjectUpdatedInPlace(h, cur, v) ==
  IF cur = JNull
  THEN [heap |-> Append(h, v), ref |-> Ref(Len(h) + 1)]
  ELSE [heap |-> [h EXCEPT ![cur.at] = v], ref |-> cur]

\* An object literal { ...cur, k: e } (cur is null when nothing is spread)
\* whose properties evaluate to those of v: a new object.
ObjectLiteral(h, cur, v) == [heap |-> Append(h, v), ref |-> Ref(Len(h) + 1)]

\* const currentState = state ?? { phase: "historical", ... }
CurrentStateRef(h, st) ==
  IF st = JNull THEN ObjectLiteral(h, JNull, MonitorCurrentState(JNull))
  ELSE [heap |-> h, ref |-> st]

\* The handler o, given the reference st to the caller's state, once callAPI
\* returned res at clock reading t: the heap it leaves and what it returns,
\* nextState being a reference.
HandlerFrame(o, h, st, res, t) ==
  LET supplied == IF st = JNull THEN JNull ELSE h[st.at]
      cur == CurrentStateRef(h, st)
      r == IF o = "monitor" THEN MonitorReturn(supplied, res, t)
           ELSE SearchReturn(supplied, res)
  IN IF r = Throw THEN [heap |-> cur.heap, result |-> Throw]
     ELSE IF r.o.nextState = JNull THEN [heap |-> cur.heap, result |-> r]
     ELSE LET spread == IF Get(r.o.nextState, "phase") = Realtime
                        THEN JNull ELSE cur.ref
              made == ObjectLiteral(cur.heap, spread, r.o.nextState)
          IN [heap |-> made.heap, result |-> Spread(r, "nextState", made.ref)]

\* The caller calls the handler o with input in and its state object, whose
\* properties are those of st, or with null.
CallerSupplies(o, in, st) ==
  /\ pc = "idle"
  /\ calls < MaxCalls
  /\ pc' = "called"
  /\ op' = o
  /\ input' = in
  /\ heap' = IF st = JNull THEN <<>> ELSE <<st>>
  /\ state' = IF st = JNull THEN JNull ELSE Ref(1)
  /\ held' = st
  /\ payload' = None
  /\ result' = None
  /\ calls' = calls + 1
  /\ UNCHANGED <<forum, log, ctx, request, retryCount, attempts, outcomes, sleeps, body,
                 now, parked>>

\* callAPI returns res and the handler runs to its end.
HandlerCompletes(res) ==
  /\ pc = "called"
  /\ payload' = Value(res)
  /\ heap' = HandlerFrame(op, heap, state, res, now).heap
  /\ IF HandlerFrame(op, heap, state, res, now).result = Throw
     THEN pc' = "failed" /\ result' = Failure("TypeError")
     ELSE /\ pc' = "done"
          /\ result' = Value(HandlerFrame(op, heap, state, res, now).result)
  /\ UNCHANGED <<forum, log, op, ctx, input, state, request, retryCount, attempts,
                 outcomes, sleeps, body, now, held, calls, parked>>

\* The payloads callAPI may return to the handler that was called.
FramePayloads ==
  IF op = "monitor"
  THEN SessionBodies(MonitorWatermark(MonitorCurrentState(held), now))
         \cup {NeutralPayload, JNull}
  ELSE SearchBodies(now) \cup {NeutralPayload}

FramesNext ==
  \/ \E in \in MonitorInputs, st \in SuppliedMonitorStates(now) :
       CallerSupplies("monitor", in, st)
  \/ \E c \in SearchCalls : CallerSupplies("search", c[1], c[2])
  \/ \E res \in FramePayloads : HandlerCompletes(res)
  \/ Return

Frames == Init /\ [][FramesNext]_vars

(***************************************************************************)
(* Two sessions whose invocations are interleaved at their suspension      *)
(* points: one invocation runs while the other is suspended.               *)
(***************************************************************************)

\* The parameters and locals of the running invocation, with what its caller
\* holds, as they are kept while the invocation of session sid is suspended.
Suspended(sid) ==
  [sid |-> sid, pc |-> pc, op |-> op, input |-> input, state |-> state,
   request |-> request, retryCount |-> retryCount, attempts |-> attempts,
   outcomes |-> outcomes, sleeps |-> sleeps, body |-> body,
   payload |-> payload, result |-> result, held |-> held, calls |-> calls]

\* A retry counter that the invocations share instead of a parameter.
ResumedSharingRetryCount(saved, running) ==
  [saved EXCEPT !.retryCount = running.retryCount]

\* What a suspended invocation continues with when it is resumed: its own
\* parameters and locals, whatever the invocation that ran meanwhile did.
Resumed(saved, running) == saved

\* The second session holds a historical state saved earlier.
SecondHeld == JObj([phase |-> Historical, lastTopicId |-> JNum(MaxProgress)])

\* Each session is given one call; both share the plugin context.
InterleavedInit ==
  /\ pc = "idle"
  /\ op = "none"
  /\ ctx = [batchSize |-> MaxBatch]
  /\ input = Undef
  /\ state = JNull
  /\ request = Request(<<>>, <<>>)
  /\ retryCount = 0
  /\ attempts = 0
  /\ outcomes = <<>>
  /\ sleeps = <<>>
  /\ body = Undecodable
  /\ payload = None
  /\ result = None
  /\ now = StartTime
  /\ held = Fresh
  /\ calls = MaxCalls - 1
  /\ heap = <<>>
  /\ forum = NoForum
  /\ log = <<>>
  /\ parked = [sid |-> 2, pc |-> "idle", op |-> "none", input |-> Undef,
               state |-> JNull, request |-> Request(<<>>, <<>>),
               retryCount |-> 0, attempts |-> 0, outcomes |-> <<>>,
               sleeps |-> <<>>, body |-> Undecodable, payload |-> None,
               result |-> None, held |-> SecondHeld, calls |-> MaxCalls - 1]

\* The running invocation is suspended and the other one is resumed.
Switch ==
  /\ parked # None
  /\ parked' = Suspended(3 - parked.sid)
  /\ pc' = Resumed(parked, Suspended(0)).pc
  /\ op' = Resumed(parked, Suspended(0)).op
  /\ input' = Resumed(parked, Suspended(0)).input
  /\ state' = Resumed(parked, Suspended(0)).state
  /\ request' = Resumed(parked, Suspended(0)).request
  /\ retryCount' = Resumed(parked, Suspended(0)).retryCount
  /\ attempts' = Resumed(parked, Suspended(0)).attempts
  /\ outcomes' = Resumed(parked, Suspended(0)).outcomes
  /\ sleeps' = Resumed(parked, Suspended(0)).sleeps
  /\ body' = Resumed(parked, Suspended(0)).body
  /\ payload' = Resumed(parked, Suspended(0)).payload
  /\ result' = Resumed(parked, Suspended(0)).result
  /\ held' = Resumed(parked, Suspended(0)).held
  /\ calls' = Resumed(parked, Suspended(0)).calls
  /\ UNCHANGED <<forum, log, ctx, now, heap>>

\* A search answer of n topics.
SearchPageBody(n, t) ==
  JObj([topics |-> JArr([i \in 1..n |-> RawTopic(i, toISOString(t))])])

\* The bodies the forum may answer the pending request of a session with.
InterleavedBodies ==
  IF op = "search"
  THEN {EmptyObject, SearchPageBody(SearchPageSize, now)}
  ELSE SessionBodies(MonitorWatermark(MonitorCurrentState(state), now))

InterleavedNext ==
  \/ \E st \in SessionStates : InvokeMonitor(SessionInput, st)
  \/ InvokeSearch(SearchPlain, SearchState(SearchPageSize))
  \/ \E cause \in {"network", "timeout"} : FetchRejects(cause)
  \/ \E status \in Statuses : FetchRateLimited(status)
  \/ SleepElapses
  \/ \E status \in Statuses : FetchHttpError(status)
  \/ \E status \in Statuses, b \in InterleavedBodies \cup {Undecodable} :
       FetchOk(status, b)
  \/ JsonResolves
  \/ JsonRejects
  \/ Return
  \/ Switch

Interleaved == InterleavedInit /\ [][InterleavedNext]_vars

(***************************************************************************)
(* One monitor call whose input has tags or none.                          *)
(***************************************************************************)

TagValues == {Undef, JArr(<<>>), JArr(<<JStr("other")>>)}

\* The monitor inputs: an optional category and optional tags.
TaggedInputs ==
  {JObj([category |-> c, tags |-> tg]) :
     c \in {Undef, JStr("governance")}, tg \in TagValues}

\* One invocation.
SingleInit ==
  /\ pc = "idle"
  /\ op = "none"
  /\ ctx \in Contexts
  /\ input = Undef
  /\ state = JNull
  /\ request = Request(<<>>, <<>>)
  /\ retryCount = 0
  /\ attempts = 0
  /\ outcomes = <<>>
  /\ sleeps = <<>>
  /\ body = Undecodable
  /\ payload = None
  /\ result = None
  /\ now = StartTime
  /\ held = Fresh
  /\ calls = MaxCalls - 1
  /\ heap = <<>>
  /\ forum = NoForum
  /\ log = <<>>
  /\ parked = None

TaggedNext ==
  \/ \E in \in TaggedInputs, st \in SuppliedMonitorStates(now) :
       InvokeMonitor(in, st)
  \/ \E cause \in {"network", "timeout"} : FetchRejects(cause)
  \/ \E status \in Statuses : FetchRateLimited(status)
  \/ SleepElapses
  \/ \E status \in Statuses : FetchHttpError(status)
  \/ \E status \in Statuses,
        b \in SessionBodies(MonitorWatermark(MonitorCurrentState(state), now))
               \cup {Undecodable} : FetchOk(status, b)
  \/ JsonResolves
  \/ JsonRejects
  \/ Return

Tagged == SingleInit /\ [][TaggedNext]_vars

(***************************************************************************)
(* One invocation of any handler in which every pending fetch, sleep and   *)
(* decoding eventually settles.                                            *)
(***************************************************************************)

\* The bodies the forum may answer the pending request with.
SingleBodies ==
  CASE op = "getTopic" -> {JNull, EmptyObject, RawTopic(7, toISOString(now))}
    [] op = "monitor" ->
         {EmptyObject, LatestBody(JArr(<<RawTopic(1, toISOString(now))>>))}
    [] op = "search" -> {EmptyObject, SearchPageBody(1, now)}
    [] OTHER -> {}

SingleNext ==
  \/ \E topicId \in TopicIds : InvokeGetTopic(topicId)
  \/ \E st \in {JNull, JObj([phase |-> Realtime])} : InvokeMonitor(SessionInput, st)
  \/ \E c \in SearchCalls : InvokeSearch(c[1], c[2])
  \/ \E cause \in {"network", "timeout"} : FetchRejects(cause)
  \/ \E status \in Statuses : FetchRateLimited(status)
  \/ SleepElapses
  \/ \E status \in Statuses : FetchHttpError(status)
  \/ \E status \in Statuses, b \in SingleBodies \cup {Undecodable} :
       FetchOk(status, b)
  \/ JsonResolves
  \/ JsonRejects
  \/ Return

\* A fetch that stays pending is ended by the timeout signal, a sleep ends
\* and the decoding of a body settles.
Single ==
  /\ SingleInit
  /\ [][SingleNext]_vars
  /\ WF_vars(FetchRejects("timeout"))
  /\ WF_vars(SleepElapses)
  /\ WF_vars(JsonResolves)
  /\ WF_vars(JsonRejects)

(***************************************************************************)
(* A forum behind /latest.json and a monitor session that is re-invoked    *)
(* with each state it was returned.                                        *)
(***************************************************************************)

RECURSIVE ParseInt(_)
\* The natural number a text of digits stands for.
ParseInt(cs) ==
  IF cs = <<>> THEN 0
  ELSE 10 * ParseInt(SubSeq(cs, 1, Len(cs) - 1))
         + (CHOOSE d \in 0..9 : DigitChar(d) = cs[Len(cs)])

\* The value of the parameter k of a request, undefined when it has none.
QueryValue(req, k) ==
  LET at == {i \in 1..Len(req.query) : req.query[i].key = k}
  IN IF at = {} THEN Undef ELSE req.query[CHOOSE i \in at : TRUE].value

\* The body the forum answers a /latest.json request with: the page asked
\* for, cut with the page size of the server, or the newest per_page topics.
Serve(fr, req) ==
  LET page == QueryValue(req, "page")
      per == QueryValue(req, "per_page")
      size == IF per = Undef THEN fr.pageSize ELSE ParseInt(per.cs)
      first == IF page = Undef THEN 1 ELSE ParseInt(page.cs) * size + 1
      last == IF first + size - 1 < Len(fr.topics) THEN first + size - 1
              ELSE Len(fr.topics)
  IN LatestBody(JArr(SubSeq(fr.topics, first, last)))

\* A forum of n topics that were there before the session started (born -1),
\* newest first, served size topics to the page.
OldForum(n, size) ==
  [topics |-> [i \in 1..n |-> RawTopic(n + 1 - i, toISOString(StartTime - i))],
   pageSize |-> size,
   born |-> [i \in 1..n |-> -1]]

\* The session has not been returned a realtime state yet.
Backfilling == held = Fresh \/ Get(held, "phase") = Historical

\* What the session records of the call that ended: its phase, the page it
\* asked for (none in realtime), the statuses it was answered with, whether
\* it returned, the phase of the state the session holds after it and the
\* ids it emitted.
CallEntry ==
  [phase |-> Get(MonitorCurrentState(state), "phase"),
   page |-> QueryValue(request, "page"),
   outcomes |-> outcomes,
   returned |-> pc = "done",
   next |-> IF pc = "done" THEN Get(result.v.o.nextState, "phase")
            ELSE Get(MonitorCurrentState(state), "phase"),
   ids |-> IF pc = "done"
           THEN [i \in 1..Len(result.v.o.items.a) |-> result.v.o.items.a[i].o.id.n]
           ELSE <<>>]

\* The caller takes the outcome of a monitor call, keeps the state returned
\* and records the call.
Collect ==
  /\ pc \in {"done", "failed"}
  /\ pc' = "idle"
  /\ held' = IF pc = "done" THEN result.v.o.nextState ELSE held
  /\ log' = Append(log, CallEntry)
  /\ op' = "none"
  /\ input' = Undef
  /\ state' = JNull
  /\ request' = Request(<<>>, <<>>)
  /\ retryCount' = 0
  /\ attempts' = 0
  /\ outcomes' = <<>>
  /\ sleeps' = <<>>
  /\ body' = Undecodable
  /\ payload' = None
  /\ result' = None
  /\ UNCHANGED <<ctx, now, calls, heap, parked, forum>>

\* Calls enough to page through MaxForum topics at any batch and page size.
MaxBackfillCalls == MaxBatch * MaxForum + 1

\* A forum whose topics do not change, with any page size.
BackfillInit ==
  /\ pc = "idle"
  /\ op = "none"
  /\ ctx \in Contexts
  /\ input = Undef
  /\ state = JNull
  /\ request = Request(<<>>, <<>>)
  /\ retryCount = 0
  /\ attempts = 0
  /\ outcomes = <<>>
  /\ sleeps = <<>>
  /\ body = Undecodable
  /\ payload = None
  /\ result = None
  /\ now = StartTime
  /\ held = Fresh
  /\ calls = MaxCalls - MaxBackfillCalls
  /\ heap = <<>>
  /\ parked = None
  /\ forum \in {OldForum(n, size) : n \in 0..MaxForum, size \in 1..MaxServerPage}
  /\ log = <<>>

\* The session is re-invoked with the state it holds, while it backfills.
Reinvoke ==
  /\ Backfilling
  /\ \E st \in SessionStates : InvokeMonitor(SessionInput, st)

\* The forum answers the pending request with status 200.
ForumAnswers == FetchOk(200, Serve(forum, request))

BackfillNext ==
  \/ Reinvoke
  \/ ForumAnswers
  \/ JsonResolves
  \/ Collect

\* The session keeps being re-invoked and every answer arrives.
Backfill == BackfillInit /\ [][BackfillNext]_vars /\ WF_vars(BackfillNext)

(***************************************************************************)
(* A forum that grows while a session monitors it.                         *)
(***************************************************************************)

\* A topic is created on the forum, stamped with the clock reading, and
\* becomes the newest: between two calls of the session or, in a call,
\* between the answer of the forum and the end of the call. Fewer than
\* batchSize topics were created since the call before the last one ended,
\* so no more than batchSize are created between two answers.
TopicCreated ==
  /\ pc \in {"idle", "json"}
  /\ Len(forum.topics) < MaxForum
  /\ Cardinality({i \in 1..Len(forum.born) : forum.born[i] >= Len(log) - 1})
       < ctx.batchSize
  /\ forum' = [forum EXCEPT
                 !.topics = <<RawTopic(Len(forum.topics) + 1, toISOString(now))>> \o @,
                 !.born = <<Len(log)>> \o @]
  /\ UNCHANGED <<pc, op, ctx, input, state, request, retryCount, attempts, outcomes,
                 sleeps, body, payload, result, now, held, calls, heap, parked, log>>

\* A millisecond passes on the clock the forum and the client share.
Tick ==
  /\ pc \in {"idle", "json"}
  /\ now < StartTime + MaxTicks
  /\ now' = now + 1
  /\ UNCHANGED <<pc, op, ctx, input, state, request, retryCount, attempts, outcomes,
                 sleeps, body, payload, result, held, calls, heap, parked, forum, log>>

\* A session started from null against a forum of at most one topic.
PollingInit ==
  /\ pc = "idle"
  /\ op = "none"
  /\ ctx \in Contexts
  /\ input = Undef
  /\ state = JNull
  /\ request = Request(<<>>, <<>>)
  /\ retryCount = 0
  /\ attempts = 0
  /\ outcomes = <<>>
  /\ sleeps = <<>>
  /\ body = Undecodable
  /\ payload = None
  /\ result = None
  /\ now = StartTime
  /\ held = Fresh
  /\ calls = MaxCalls - MaxPollCalls
  /\ heap = <<>>
  /\ parked = None
  /\ forum \in {OldForum(n, MaxServerPage) : n \in 0..1}
  /\ log = <<>>

PollingNext ==
  \/ \E st \in SessionStates : InvokeMonitor(SessionInput, st)
  \/ ForumAnswers
  \/ FetchHttpError(500)
  \/ JsonResolves
  \/ Collect
  \/ TopicCreated
  \/ Tick

Polling == PollingInit /\ [][PollingNext]_vars

(***************************************************************************)
(* Properties.                                                             *)
(***************************************************************************)
Answers == Len(outcomes)

LastOutcome == outcomes[Answers]

\* The last HTTP attempt was answered with a status.
LastAnswered == Answers >= 1 /\ LastOutcome.kind = "response"

Is2xx(status) == status \div 100 = 2

\* Every HTTP attempt so far was answered with 429.
RateLimitedOnly == \A i \in 1..Answers : outcomes[i] = Answered(429)

\* C1: while every HTTP attempt is answered with 429, callAPI issues at most
\* 4 attempts, sleeps 1000, 2000 and 4000 ms before the 2nd, 3rd and 4th
\* attempt, and after the 4th 429 returns the neutral payload as a normal
\* result.
C1_RetryBound ==
  RateLimitedOnly =>
    /\ Answers <= 4
    /\ Len(sleeps) <= 3
    /\ sleeps = SubSeq(<<1000, 2000, 4000>>, 1, Len(sleeps))
    /\ pc = "fetch" => attempts = Answers + 1 /\ Len(sleeps) = Answers
    /\ pc = "sleep" => attempts = Answers /\ Len(sleeps) = Answers
    /\ Answers = 4 =>
         /\ pc = "done"
         /\ attempts = 4
         /\ sleeps = <<1000, 2000, 4000>>
         /\ payload = Value(NeutralPayload)
         /\ result.kind = "value"

C1_Witness == Answers = 4 /\ RateLimitedOnly /\ pc = "done"

\* C2: callAPI stops at the first answer whose status is not 429: after k
\* answers of 429 (k <= 3) and that answer it has made k + 1 attempts and
\* makes no other; it returns the decoded body of a 2xx answer and the
\* neutral payload for any other status.
C2_StopsAtFirstNon429 ==
  (LastAnswered /\ LastOutcome.status # 429) =>
    /\ Answers <= 4
    /\ \A i \in 1..(Answers - 1) : outcomes[i] = Answered(429)
    /\ attempts = Answers
    /\ pc \in {"json", "done", "failed"}
    /\ (Is2xx(LastOutcome.status) /\ body # Undecodable /\ pc # "json")
         => payload = Value(body)
    /\ ~Is2xx(LastOutcome.status) => payload = Value(NeutralPayload)

C2_Witness ==
  /\ Answers = 4
  /\ LastOutcome = Answered(200)
  /\ pc = "done"
  /\ payload = Value(body)
  /\ body # NeutralPayload

\* C3: an answer with a status that is neither 2xx nor 429 ends the
\* invocation with the neutral payload and a result, for every handler.
C3_HttpErrorDegrades ==
  (LastAnswered /\ ~Is2xx(LastOutcome.status) /\ LastOutcome.status # 429) =>
    /\ pc = "done"
    /\ attempts = Answers
    /\ payload = Value(NeutralPayload)
    /\ result.kind = "value"

C3_Witness ==
  /\ op = "search"
  /\ Answers = 2
  /\ LastOutcome = Answered(404)
  /\ pc = "done"

\* C4: when an HTTP attempt, the first or a retry, fails at the network
\* level or times out, the invocation fails with that error: no other
\* attempt is issued and callAPI returns no payload.
C4_NetworkFailureIsHard ==
  (Answers >= 1 /\ LastOutcome.kind = "rejected") =>
    /\ pc = "failed"
    /\ result = Failure(LastOutcome.cause)
    /\ payload = None
    /\ attempts = Answers

C4_Witness ==
  /\ Answers = 3
  /\ LastOutcome = Rejected("timeout")
  /\ pc = "failed"

\* C5: when a 2xx answer carries a body that does not decode as JSON, the
\* invocation fails: no other attempt is issued and no payload, neutral or
\* other, is returned.
C5_DecodeFailureIsHard ==
  (LastAnswered /\ Is2xx(LastOutcome.status) /\ body = Undecodable /\ pc # "json") =>
    /\ pc = "failed"
    /\ result = Failure("decode")
    /\ payload = None
    /\ attempts = Answers

C5_Witness ==
  /\ LastAnswered
  /\ Is2xx(LastOutcome.status)
  /\ body = Undecodable
  /\ pc = "failed"
  /\ Answers = 2

\* C6: an invocation of a handler fails only when an HTTP attempt was
\* rejected or a 2xx body did not decode; every status and every body that
\* decodes gives a result.
C6_OnlyNetworkAndDecodeFail ==
  result.kind = "failure" =>
    \/ Answers >= 1 /\ LastOutcome.kind = "rejected"
    \/ LastAnswered /\ Is2xx(LastOutcome.status) /\ body = Undecodable

\* handleMonitor runs with a supplied state of the historical phase, or none.
InHistorical ==
  op = "monitor" /\ (state = JNull \/ state.o.phase = Historical)

\* handleMonitor runs with a supplied state of the realtime phase.
InRealtime == op = "monitor" /\ state # JNull /\ state.o.phase = Realtime

HasField(obj, k) == obj # JNull /\ k \in DOMAIN obj.o /\ obj.o[k] # Undef

\* The progress count of the supplied state, 0 when absent.
SuppliedProgress ==
  IF HasField(state, "lastTopicId") THEN state.o.lastTopicId.n ELSE 0

\* The values of the parameter k in the request.
ParamValues(k) ==
  {request.query[i].value : i \in {j \in 1..Len(request.query) : request.query[j].key = k}}

\* The valid topics the call obtained: the normalization of the topics of
\* the payload callAPI returned.
Obtained ==
  parseTopics(Or(OptGet(Get(payload.v, "topic_list"), "topics"), JArr(<<>>))).a

Items == result.v.o.items.a

NextState == result.v.o.nextState

\* C7: in the historical phase handleMonitor requests the page floor(p / b),
\* p the progress count of the supplied state (0 when absent) and b the batch
\* size.
C7_HistoricalPage ==
  (InHistorical /\ pc # "idle") =>
    ParamValues("page") = {JText(DigitsOf(SuppliedProgress \div ctx.batchSize))}

C7_Witness ==
  /\ InHistorical
  /\ pc = "fetch"
  /\ SuppliedProgress = 3
  /\ ctx.batchSize = 2
  /\ ParamValues("page") = {JText(<<"1">>)}

\* C8: a historical call that obtains n >= 1 topics returns exactly those
\* topics and a historical next state whose progress count is the previous
\* one plus n.
C8_HistoricalProgress ==
  (InHistorical /\ pc = "done" /\ Len(Obtained) >= 1) =>
    /\ Items = Obtained
    /\ NextState.o.phase = Historical
    /\ NextState.o.lastTopicId = JNum(SuppliedProgress + Len(Obtained))

C8_Witness ==
  /\ InHistorical
  /\ pc = "done"
  /\ Len(Obtained) = 2
  /\ SuppliedProgress = 3
  /\ NextState.o.lastTopicId = JNum(5)

\* C9: a historical call that obtains no topic returns no item and a
\* realtime next state whose lastChecked is the current time; a call that
\* moves from historical to realtime emits no topic.
C9_TransitionToRealtime ==
  (InHistorical /\ pc = "done") =>
    /\ Len(Obtained) = 0 =>
         /\ Items = <<>>
         /\ NextState.o.phase = Realtime
         /\ IsDatetime(NextState.o.lastChecked)
         /\ NextState.o.lastChecked.iso.frac \in 0..999
         /\ NextState.o.lastChecked.iso.sec * 1000
              + NextState.o.lastChecked.iso.frac = now
    /\ NextState.o.phase = Realtime => Items = <<>>

C9_Witness ==
  /\ InHistorical
  /\ pc = "done"
  /\ SuppliedProgress = 3
  /\ Answers = 2
  /\ NextState.o.phase = Realtime
  /\ payload.v # NeutralPayload

\* The watermark the claim names: the lastChecked of the supplied state, or
\* one hour before the current time.
EffectiveWatermark ==
  IF HasField(state, "lastChecked")
  THEN getTime(state.o.lastChecked.iso)
  ELSE now - 3600000

CreatedAt(tp) == getTime(tp.o.created_at.iso)

\* C10: in the realtime phase the items are the obtained topics created
\* strictly after the effective watermark: one created at the watermark is
\* left out.
C10_RealtimeFilter ==
  (InRealtime /\ pc = "done") =>
    /\ \A i \in 1..Len(Obtained) :
         (\E j \in 1..Len(Items) : Items[j] = Obtained[i])
           <=> CreatedAt(Obtained[i]) > EffectiveWatermark
    /\ \A j \in 1..Len(Items) : \E i \in 1..Len(Obtained) : Items[j] = Obtained[i]

C10_Witness ==
  /\ InRealtime
  /\ pc = "done"
  /\ ~HasField(state, "lastChecked")
  /\ Len(Obtained) = 2
  /\ Len(Items) = 1
  /\ \E i \in 1..Len(Obtained) : CreatedAt(Obtained[i]) = now - 3600000

\* C11: a realtime call that returns sets the lastChecked of the next state
\* to the current time, whether or not it emitted items, and over the calls of
\* a session the watermark never moves backwards.
C11_WatermarkAdvances ==
  (InRealtime /\ pc = "done") =>
    /\ NextState.o.phase = Realtime
    /\ NextState.o.lastChecked = JDate(toISOString(now))
    /\ getTime(NextState.o.lastChecked.iso) = now
    /\ state = held
    /\ getTime(held.o.lastChecked.iso) <= getTime(NextState.o.lastChecked.iso)

C11_Witness ==
  /\ InRealtime
  /\ pc = "done"
  /\ Items = <<>>
  /\ Len(Obtained) >= 1
  /\ getTime(held.o.lastChecked.iso) < getTime(NextState.o.lastChecked.iso)

\* C12: handleMonitor never returns a null next state: whatever the supplied
\* state and whatever let the call return, the next state is a state object.
C12_MonitorNeverEnds ==
  (op = "monitor" /\ pc = "done") =>
    /\ NextState # JNull
    /\ NextState.t = "object"
    /\ Get(NextState, "phase") \in {Historical, Realtime}

C12_Witness ==
  /\ InRealtime
  /\ pc = "done"
  /\ Answers = 4
  /\ RateLimitedOnly
  /\ Items = <<>>
  /\ NextState.t = "object"

\* C13: once the session holds a realtime state, every state it holds later is
\* a realtime state: no call moves it back to historical.
C13_PhaseMonotone ==
  [][(held # Fresh /\ held.o.phase = Realtime) => held'.o.phase = Realtime]_vars

C13_Witness ==
  /\ InRealtime
  /\ pc = "done"
  /\ state = held
  /\ calls = MaxCalls
  /\ Len(Items) >= 1
  /\ NextState.o.phase = Realtime

\* A state of exactly one variant: historical with a progress count >= 1 and
\* no lastChecked, or realtime with a lastChecked timestamp and no count.
WellFormed(st) ==
  /\ st.t = "object"
  /\ \/ /\ Get(st, "phase") = Historical
        /\ HasField(st, "lastTopicId")
        /\ IsNum(st.o.lastTopicId)
        /\ st.o.lastTopicId.n >= 1
        /\ ~HasField(st, "lastChecked")
     \/ /\ Get(st, "phase") = Realtime
        /\ HasField(st, "lastChecked")
        /\ IsDatetime(st.o.lastChecked)
        /\ ~HasField(st, "lastTopicId")

\* C14: in a session that starts from null, every returned state is a
\* well-formed instance of exactly one of the two variants.
C14_SessionStatesWellFormed ==
  /\ (op = "monitor" /\ pc = "done") => WellFormed(NextState)
  /\ held # Fresh => WellFormed(held)

C14_Witness ==
  /\ op = "monitor"
  /\ pc = "done"
  /\ held # Fresh
  /\ held.o.phase = Historical
  /\ held.o.lastTopicId.n >= 2
  /\ NextState.o.phase = Realtime

\* Two states that read alike: every property has the same value in both, a
\* property that is missing reading as undefined.
SameState(a, b) ==
  /\ a.t = "object"
  /\ b.t = "object"
  /\ \A k \in DOMAIN a.o \cup DOMAIN b.o : Get(a, k) = Get(b, k)

\* The historical state without progress markers.
BareHistorical == JObj([phase |-> Historical])

\* Of the states null and {phase: historical}, the one that is not st.
Counterpart(st) == IF st = JNull THEN BareHistorical ELSE JNull

\* C15: a call with state null and a call with the state {phase: historical}
\* issue the same request and, for the same payload and clock, return the same
\* items and next state, or fail alike.
C15_NullIsBareHistorical ==
  (op = "monitor" /\ state \in {JNull, BareHistorical}) =>
    /\ request = Request(<<"/latest.json">>,
                         MonitorParams(ctx, input,
                                       MonitorCurrentState(Counterpart(state))))
    /\ pc = "done" =>
         LET other == MonitorReturn(Counterpart(state), payload.v, now)
         IN /\ other # Throw
            /\ other.o.items = result.v.o.items
            /\ SameState(other.o.nextState, NextState)
    /\ (pc = "failed" /\ payload # None) =>
         MonitorReturn(Counterpart(state), payload.v, now) = Throw

C15_Witness ==
  /\ op = "monitor"
  /\ state = JNull
  /\ pc = "done"
  /\ Len(Items) = 2
  /\ NextState.o.lastTopicId = JNum(2)
  /\ "lastChecked" \in DOMAIN NextState.o
  /\ SameState(MonitorReturn(BareHistorical, payload.v, now).o.nextState, NextState)

\* The topics and posts a search returned.
FoundTopics == result.v.o.topics.a

FoundPosts == result.v.o.posts.a

\* C16: handleSearch returns a null next state exactly when it returned fewer
\* than 20 topics; otherwise the next state is a state whose progress count is
\* the previous count (0 when absent) plus the number of topics returned.
C16_SearchPagination ==
  (op = "search" /\ pc = "done") =>
    /\ NextState = JNull <=> Len(FoundTopics) < 20
    /\ Len(FoundTopics) >= 20 =>
         /\ NextState.t = "object"
         /\ NextState.o.lastTopicId = JNum(SuppliedProgress + Len(FoundTopics))

C16_Witness ==
  /\ op = "search"
  /\ pc = "done"
  /\ Len(FoundTopics) = 20
  /\ SuppliedProgress = 45
  /\ NextState.o.lastTopicId = JNum(65)

\* C17: handleSearch requests the page floor(p / 20), p the progress count of
\* the supplied state (0 when null or absent), and goes on from 20 topics on,
\* whatever the batch size of the context.
C17_SearchPage ==
  \A b \in 1..MaxBatch :
    (op = "search" /\ pc # "idle" /\ ctx.batchSize = b) =>
      /\ ParamValues("page") = {JText(DigitsOf(SuppliedProgress \div 20))}
      /\ pc = "done" => (NextState # JNull <=> Len(FoundTopics) >= 20)

C17_Witness ==
  /\ op = "search"
  /\ pc = "done"
  /\ ctx.batchSize = 2
  /\ SuppliedProgress = 45
  /\ ParamValues("page") = {JText(<<"2">>)}
  /\ Len(FoundTopics) = 2
  /\ NextState = JNull

\* The filter k of the search input, undefined when not given.
Filter(k) ==
  IF "filters" \in DOMAIN input.o THEN Get(input.o.filters, k) ELSE Undef

\* A text filter is given when it is a text that is not empty.
Given(v) == v.t = "string" /\ v.cs # <<>>

\* The part of a text before its first "T"; the whole text when it has none.
DatePart(cs) ==
  LET ts == {i \in 1..Len(cs) : cs[i] = "T"}
  IN IF ts = {} THEN cs
     ELSE SubSeq(cs, 1, (CHOOSE i \in ts : \A j \in ts : i <= j) - 1)

\* C18: the query text sent is the input query, then " @<username>" when a
\* username filter is given, then " after:<date>" when an after filter is
\* given, <date> being the part of the after timestamp before its first "T".
C18_QueryText ==
  (op = "search" /\ pc # "idle") =>
    ParamValues("q") =
      {JText(input.o.query.cs
             \o (IF Given(Filter("username"))
                 THEN <<" ", "@">> \o Filter("username").cs ELSE <<>>)
             \o (IF Given(Filter("after"))
                 THEN <<" ", "a", "f", "t", "e", "r", ":">>
                        \o DatePart(Filter("after").cs)
                 ELSE <<>>))}

C18_Witness ==
  /\ op = "search"
  /\ pc = "fetch"
  /\ Filter("username") = Chars(<<"b", "o", "b">>)
  /\ Filter("after") = Chars(<<"2", "4", "-", "0", "1", "T", "0", "9">>)
  /\ ParamValues("q") =
       {JText(<<"n", "e", "a", "r", " ", "@", "b", "o", "b", " ",
                "a", "f", "t", "e", "r", ":", "2", "4", "-", "0", "1">>)}

\* The search input in with its minLikes filter set to m (undefined: absent).
WithMinLikes(in, m) ==
  LET filters == IF "filters" \in DOMAIN in.o THEN in.o.filters ELSE EmptyObject
  IN Spread(in, "filters", Spread(filters, "minLikes", m))

\* C19: the minLikes filter is inert: the request is the one of the same
\* search with any other minLikes or none, and the topics and posts returned
\* are all the valid ones of the payload, whatever their like count.
C19_MinLikesInert ==
  (op = "search" /\ pc # "idle") =>
    /\ \A m \in {Undef, JNum(0), JNum(1), JNum(5)} :
         request = Request(<<"/search.json">>,
                           SearchParamsOf(WithMinLikes(input, m), state))
    /\ pc = "done" =>
         /\ FoundTopics = parseTopics(Or(Get(payload.v, "topics"), JArr(<<>>))).a
         /\ FoundPosts = parsePosts(Or(Get(payload.v, "posts"), JArr(<<>>))).a

C19_Witness ==
  /\ op = "search"
  /\ pc = "done"
  /\ Filter("minLikes") = JNum(5)
  /\ Len(FoundTopics) = 2
  /\ \A i \in 1..Len(FoundTopics) : FoundTopics[i].o.like_count.n < 5
  /\ Len(FoundPosts) = 1

\* out is made of the normalizations F of the valid elements of in, in their
\* order in in: an element is valid when F does not give null.
Normalizes(in, out, F(_)) ==
  LET valid == {i \in 1..Len(in) : F(in[i]) # JNull}
  IN /\ Len(out) = Cardinality(valid)
     /\ \A i \in valid : out[Cardinality({j \in valid : j <= i})] = F(in[i])

Missing(v) == v \in {Undef, JNull}

\* A raw topic record is valid when every required field has its type, every
\* optional field is missing or has its type, and last_posted_at is null or a
\* datetime.
ValidRawTopic(r) ==
  /\ r.t = "object"
  /\ IsNum(Get(r, "id"))
  /\ IsStr(Get(r, "title"))
  /\ IsStr(Get(r, "slug"))
  /\ IsNum(Get(r, "posts_count"))
  /\ (Get(r, "views") = Undef \/ IsNum(Get(r, "views")))
  /\ (Missing(Get(r, "like_count")) \/ IsNum(Get(r, "like_count")))
  /\ IsDatetime(Get(r, "created_at"))
  /\ (Get(r, "last_posted_at") = JNull \/ IsDatetime(Get(r, "last_posted_at")))
  /\ (Get(r, "category_id") = Undef \/ IsNum(Get(r, "category_id")))
  /\ (Missing(Get(r, "tags")) \/ IsStringArray(Get(r, "tags")))

\* The topic the claim expects of a valid raw record.
ExpectedTopic(r) ==
  JObj([f \in TopicFields |->
          IF f = "like_count" /\ Missing(Get(r, f)) THEN JNum(0)
          ELSE IF f = "tags" /\ Missing(Get(r, f)) THEN JArr(<<>>)
          ELSE Get(r, f)])

\* C21: of a valid raw topic record parseTopic returns the topic whose fields
\* are the fields of the record, a missing like_count being 0 and missing tags
\* the empty list; of an invalid record (a field of the wrong type, a required
\* field missing) it returns null; it never raises.
C21_ParseTopic ==
  (op = "parseTopic" /\ pc # "idle") =>
    /\ pc = "done"
    /\ result.kind = "value"
    /\ result.v = IF ValidRawTopic(input) THEN ExpectedTopic(input) ELSE JNull

\* A raw post is valid when every required field has its type and every
\* optional one is missing or has its type.
ValidRawPost(r) ==
  /\ r.t = "object"
  /\ IsNum(Get(r, "id"))
  /\ IsNum(Get(r, "topic_id"))
  /\ IsStr(Get(r, "username"))
  /\ (Get(r, "cooked") = Undef \/ IsStr(Get(r, "cooked")))
  /\ (Get(r, "blurb") = Undef \/ IsStr(Get(r, "blurb")))
  /\ IsDatetime(Get(r, "created_at"))
  /\ (Missing(Get(r, "like_count")) \/ IsNum(Get(r, "like_count")))

\* The content the claim expects of a valid raw post.
ExpectedCooked(r) ==
  IF IsStr(Get(r, "cooked")) THEN Get(r, "cooked")
  ELSE IF IsStr(Get(r, "blurb")) THEN Get(r, "blurb")
  ELSE Undef

\* C22: the content of a normalized valid post is the cooked of the record
\* when cooked is a string, the empty string included; the blurb when cooked
\* is absent and blurb present; absent when both are absent.
C22_CookedFallback ==
  (op = "parsePosts" /\ pc # "idle" /\ Len(input.a) = 1
     /\ ValidRawPost(input.a[1])) =>
    /\ pc = "done"
    /\ Len(result.v.a) = 1
    /\ Get(result.v.a[1], "cooked") = ExpectedCooked(input.a[1])

\* The raw posts of a payload: its post_stream.posts when that is a list, none
\* when the payload has no such list.
RawPostsOf(res) ==
  LET stream == IF Nullish(res) THEN Undef ELSE Get(res, "post_stream")
      posts == IF Nullish(stream) THEN Undef ELSE Get(stream, "posts")
  IN IF posts.t = "array" THEN posts ELSE JArr(<<>>)

\* C23: once callAPI returned a payload, handleGetTopic returns the
\* normalization of the payload as topic (null when it is invalid) and the
\* normalization of its post_stream.posts as posts (empty when absent), the
\* one whatever the other; of the neutral payload it returns a null topic and
\* no posts.
C23_GetTopicResult ==
  (op = "getTopic" /\ pc \in {"done", "failed"} /\ payload # None) =>
    /\ pc = "done"
    /\ result.kind = "value"
    /\ result.v.o.topic = parseTopic(payload.v)
    /\ result.v.o.posts = parsePosts(RawPostsOf(payload.v))
    /\ payload.v = NeutralPayload =>
         result.v = JObj([topic |-> JNull, posts |-> JArr(<<>>)])

\* The text of a natural number as a query parameter carries it.
NumText(n) == JText(DigitsOf(n))

\* C30: a monitor request goes to /latest.json with the category when one is
\* given; in the historical phase it carries the page index and no per_page,
\* in the realtime phase per_page = context.batchSize and no page.
C30_MonitorRequestParams ==
  (op = "monitor" /\ pc # "idle") =>
    /\ request.endpoint = <<"/latest.json">>
    /\ ParamValues("category") =
         IF HasField(input, "category") THEN {input.o.category} ELSE {}
    /\ InHistorical =>
         /\ ParamValues("page") = {NumText(SuppliedProgress \div ctx.batchSize)}
         /\ ParamValues("per_page") = {}
    /\ InRealtime =>
         /\ ParamValues("per_page") = {NumText(ctx.batchSize)}
         /\ ParamValues("page") = {}
    /\ \A i \in 1..Len(request.query) :
         request.query[i].key \in {"category", "page", "per_page"}

\* A realtime request of batch size 2 for a category is in flight.
C30_Witness ==
  /\ InRealtime
  /\ pc = "fetch"
  /\ ctx.batchSize = 2
  /\ HasField(input, "category")
  /\ ParamValues("per_page") = {NumText(2)}
  /\ ParamValues("page") = {}

\* The HTTP attempts of the invocation that have not completed yet.
InFlight == attempts - Len(outcomes)

\* C26: at most one HTTP attempt is in flight, and attempt n+1 starts only
\* from the backoff sleep that followed the 429 answer to attempt n, once its
\* 2^(n-1) seconds have elapsed on the clock.
C26_SequentialRetries ==
  [][/\ InFlight \in {0, 1}
     /\ InFlight' \in {0, 1}
     /\ (attempts >= 1 /\ attempts' = attempts + 1) =>
          /\ pc = "sleep"
          /\ InFlight = 0
          /\ outcomes[attempts] = Answered(429)
          /\ Len(sleeps) = attempts
          /\ sleeps[attempts] = Pow2(attempts - 1) * 1000
          /\ now' >= now + Pow2(attempts - 1) * 1000
          /\ InFlight' = 1]_vars

\* The third attempt is in flight after two 429 answers and 1 s + 2 s of sleep.
C26_Witness ==
  /\ pc = "fetch"
  /\ attempts = 3
  /\ InFlight = 1
  /\ outcomes = <<Answered(429), Answered(429)>>
  /\ sleeps = <<1000, 2000>>
  /\ now = StartTime + 3000

\* callAPI was called directly.
Called == op = "callAPI" /\ pc # "idle"

\* No base URL was given to the call: it is undefined or the empty string.
BaseMissing == ctx.baseUrl = Undef \/ ctx.baseUrl = JStr("")

\* C27: with a missing base URL callAPI fails with a hard error before any
\* HTTP attempt: nothing is fetched, nothing is retried and no payload, the
\* neutral one included, is returned.
C27_MissingBaseIsHard ==
  (Called /\ BaseMissing) =>
    /\ pc = "failed"
    /\ result.kind = "failure"
    /\ attempts = 0
    /\ outcomes = <<>>
    /\ retryCount = 0
    /\ sleeps = <<>>
    /\ payload = None
    /\ request = Request(<<>>, <<>>)

\* A call without a base URL has failed.
C27_Witness ==
  /\ Called
  /\ ctx.baseUrl = Undef
  /\ pc = "failed"
  /\ result = Failure("TypeError")
  /\ attempts = 0

\* A credential is supplied when it is a non-empty text.
Supplied(v) == v.t = "string" /\ v # JStr("")

\* C28: every request carries Accept: application/json; Api-Key and
\* Api-Username are both set when an API key is supplied and both unset when
\* it is not; Api-Username is the supplied user name, or "system" when none
\* is supplied.
C28_Headers ==
  (Called /\ attempts >= 1) =>
    /\ request.headers["Accept"] = JStr("application/json")
    /\ Supplied(ctx.apiKey) =>
         /\ request.headers["Api-Key"] = ctx.apiKey
         /\ request.headers["Api-Username"] =
              IF Supplied(ctx.apiUsername) THEN ctx.apiUsername ELSE JStr("system")
    /\ ~Supplied(ctx.apiKey) =>
         /\ request.headers["Api-Key"] = Undef
         /\ request.headers["Api-Username"] = Undef

\* A request with an API key and no user name is in flight.
C28_Witness ==
  /\ Called
  /\ pc = "fetch"
  /\ ctx.apiKey = JStr("test-api-key")
  /\ ctx.apiUsername = Undef
  /\ request.headers["Api-Key"] = JStr("test-api-key")
  /\ request.headers["Api-Username"] = JStr("system")

\* The positions of the entries of the supplied parameters whose value is
\* neither undefined nor null.
KeptEntries ==
  {i \in 1..Len(input.params) : input.params[i].value \notin {Undef, JNull}}

\* The text of a parameter value.
TextOf(v) == IF v.t = "number" THEN NumText(v.n) ELSE v

\* C29: the query of the request has one parameter for each supplied entry
\* whose value is neither undefined nor null, with the value as a string and
\* in the order of the entries, and no other parameter.
C29_QueryParams ==
  (Called /\ attempts >= 1) =>
    /\ Len(request.query) = Cardinality(KeptEntries)
    /\ \A i \in KeptEntries :
         LET at == Cardinality({j \in KeptEntries : j <= i})
         IN /\ request.query[at].key = input.params[i].key
            /\ request.query[at].value = TextOf(input.params[i].value)
            /\ request.query[at].value.t = "string"

\* A request whose parameters were page 0, kept as "0", and a null category.
C29_Witness ==
  /\ Called
  /\ pc = "fetch"
  /\ input.params = <<Param("page", JNum(0)), Param("category", JNull)>>
  /\ request.query = <<Param("page", JText(<<"0">>))>>

\* The reference the handler returned as nextState.
NextStateRef == result.v.o.nextState

\* C24: after a call of handleMonitor or handleSearch the object the caller
\* supplied as state has the properties it had before the call, and a
\* nextState that is not null is an object other than the supplied one.
C24_SuppliedStateUntouched ==
  (op \in {"monitor", "search"} /\ pc \in {"done", "failed"}) =>
    /\ state # JNull => heap[state.at] = held
    /\ (pc = "done" /\ NextStateRef # JNull) =>
         /\ NextStateRef.t = "ref"
         /\ NextStateRef # state
         /\ NextStateRef.at \in 1..Len(heap)

\* A historical call with a supplied state of progress 3 obtained two topics:
\* the new object has progress 5, the supplied one still 3.
C24_Witness ==
  /\ op = "monitor"
  /\ pc = "done"
  /\ state = Ref(1)
  /\ held = JObj([phase |-> Historical, lastTopicId |-> JNum(3)])
  /\ heap[state.at] = held
  /\ NextStateRef = Ref(2)
  /\ heap[2] = JObj([phase |-> Historical, lastTopicId |-> JNum(5)])

\* The two sessions: the one whose invocation runs and the suspended one.
SessionFrames == {Suspended(3 - parked.sid), parked}

\* The state a session supplies to handleMonitor: the one it holds.
OwnState(f) == IF f.held = Fresh THEN JNull ELSE f.held

\* The request the invocation of f makes when it runs alone.
AloneRequest(f) ==
  IF f.op = "monitor"
  THEN Request(<<"/latest.json">>,
               MonitorParams(ctx, f.input, MonitorCurrentState(OwnState(f))))
  ELSE Request(<<"/search.json">>, SearchParamsOf(f.input, f.state))

\* The retries of f are those of a run alone against the answers f got:
\* one sleep of 2^(i-1) s after the i-th 429 answer and one attempt more than
\* the sleeps that elapsed.
AloneRetries(f) ==
  /\ Len(f.sleeps) = f.retryCount + (IF f.pc = "sleep" THEN 1 ELSE 0)
  /\ Len(f.sleeps) <= 3
  /\ \A i \in 1..Len(f.sleeps) :
       f.sleeps[i] = Pow2(i - 1) * 1000 /\ f.outcomes[i] = Answered(429)
  /\ f.attempts = f.retryCount + 1
  /\ Len(f.outcomes) = f.attempts - (IF f.pc = "fetch" THEN 1 ELSE 0)

\* The clock readings so far: the sleeps of both sessions are whole seconds.
ClockReadings == {StartTime + 1000 * k : k \in 0..((now - StartTime) \div 1000)}

\* What f returned is what its handler returns alone of its own state and
\* the payload f got, at some clock reading.
AloneResult(f) ==
  IF f.op = "monitor"
  THEN \E t \in ClockReadings :
         f.result = Value(MonitorReturn(OwnState(f), f.payload.v, t))
  ELSE f.result = Value(SearchReturn(f.state, f.payload.v))

\* C25: however the invocations of two sessions are interleaved at their
\* suspension points, each session's request, retries and result are those of
\* its run alone: they are determined by its own state and input, the answers
\* it got and the clock.
C25_SessionsDoNotInterfere ==
  \A f \in SessionFrames :
    /\ f.pc = "idle" =>
         f.attempts = 0 /\ f.retryCount = 0 /\ f.sleeps = <<>> /\ f.result = None
    /\ f.pc # "idle" =>
         /\ f.op = "monitor" => f.state = OwnState(f)
         /\ f.request = AloneRequest(f)
         /\ AloneRetries(f)
         /\ f.pc = "done" => AloneResult(f)
         /\ f.pc \in {"fetch", "sleep", "json"} => f.result = None

\* The first session's monitor call is done after one retry while the second
\* session's search is suspended in its second backoff sleep.
C25_Witness ==
  /\ op = "monitor"
  /\ pc = "done"
  /\ sleeps = <<1000>>
  /\ Len(result.v.o.items.a) = 1
  /\ parked.sid = 2
  /\ parked.op = "search"
  /\ parked.pc = "sleep"
  /\ parked.sleeps = <<1000, 2000>>

\* The fetch of the invocation degraded: its last HTTP attempt was answered
\* with a status that is not 2xx and callAPI returned.
Degraded ==
  /\ pc \in {"done", "failed"}
  /\ LastAnswered
  /\ ~Is2xx(LastOutcome.status)

\* C40: a handleSearch call whose fetch degraded returns no topics, no posts
\* and a null nextState, whatever the progress count of the supplied state.
C40_DegradedSearchEnds ==
  (op = "search" /\ Degraded) =>
    /\ pc = "done"
    /\ payload = Value(NeutralPayload)
    /\ result = Value(JObj([topics |-> JArr(<<>>), posts |-> JArr(<<>>),
                            nextState |-> JNull]))

\* A search resumed at progress 45 ended after four 429 answers.
C40_Witness ==
  /\ op = "search"
  /\ pc = "done"
  /\ SuppliedProgress = 45
  /\ attempts = 4
  /\ LastOutcome = Answered(429)
  /\ NextState = JNull

\* The raw topics of a /latest.json payload: its topic_list.topics when that
\* is a list, none when the payload has no such list.
RawTopicsOf(res) ==
  LET list == IF Nullish(res) THEN Undef ELSE Get(res, "topic_list")
      topics == IF Nullish(list) THEN Undef ELSE Get(list, "topics")
  IN IF topics.t = "array" THEN topics.a ELSE <<>>

\* C33: a historical call moves the session to realtime only when the forum
\* answered with a page of no topics: not when the fetch degraded to the
\* neutral payload, nor when the page holds records that are all invalid.
C33_LeavesHistoricalOnlyWhenExhausted ==
  (InHistorical /\ pc = "done" /\ NextState.o.phase = Realtime) =>
    /\ LastAnswered
    /\ Is2xx(LastOutcome.status)
    /\ RawTopicsOf(payload.v) = <<>>

RECURSIVE SumOf(_)
SumOf(seq) == IF seq = <<>> THEN 0 ELSE Head(seq) + SumOf(Tail(seq))

\* The invocation is suspended at a fetch, a sleep or a decoding.
Pending == pc \in {"fetch", "sleep", "json"}

\* C38: an invocation of any handler makes at most 4 HTTP attempts and sleeps
\* at most 7000 ms in all, and once it is pending it ends, with a result or a
\* failure.
C38_InvocationTerminates ==
  /\ [](attempts <= 4 /\ SumOf(sleeps) <= 7000)
  /\ Pending ~> (pc \in {"done", "failed"})

\* A search ended after 4 attempts and 7000 ms of sleep.
C38_Witness ==
  /\ op = "search"
  /\ pc \in {"done", "failed"}
  /\ attempts = 4
  /\ SumOf(sleeps) = 7000

\* The input with its tags replaced.
WithTags(in, tg) == Spread(in, "tags", tg)

\* C39: the tags of the monitor input are inert: the request is the one of
\* the same call with any other tags or none, and the result is what the
\* handler returns of the state, the payload and the clock alone.
C39_TagsInert ==
  (op = "monitor" /\ pc # "idle") =>
    /\ \A tg \in TagValues \cup {JArr(<<JStr("tag")>>)} :
         request = Request(<<"/latest.json">>,
                           MonitorParams(ctx, WithTags(input, tg),
                                         MonitorCurrentState(state)))
    /\ ParamValues("tags") = {}
    /\ pc = "done" => result = Value(MonitorReturn(state, payload.v, now))

\* A call asking for the tag "other" emitted a topic that does not carry it.
C39_Witness ==
  /\ op = "monitor"
  /\ pc = "done"
  /\ Get(input, "tags") = JArr(<<JStr("other")>>)
  /\ Len(Items) >= 1
  /\ \A i \in 1..Len(Items) : Get(Items[i], "tags") # JArr(<<JStr("other")>>)

\* The historical calls the session completed, in order.
HistoricalCalls == SelectSeq(log, LAMBDA e : e.phase = Historical)

\* The ids the historical calls emitted.
BackfilledIds ==
  UNION {{HistoricalCalls[i].ids[j] : j \in 1..Len(HistoricalCalls[i].ids)} :
           i \in 1..Len(HistoricalCalls)}

\* The ids of the topics the forum holds.
ForumIds == {forum.topics[i].o.id.n : i \in 1..Len(forum.topics)}

\* The pages the historical calls asked for, in order.
PagesAsked == [i \in 1..Len(HistoricalCalls) |-> ParseInt(HistoricalCalls[i].page.cs)]

\* C31: the historical calls of a session ask for the pages 0, 1, 2, ... in
\* order, none skipped and none asked for twice.
C31_PagesInOrder == \A i \in 1..Len(PagesAsked) : PagesAsked[i] = i - 1

\* C32: when the session has entered realtime, every topic of the forum was
\* emitted by one of its historical calls.
C32_BackfillComplete ==
  (held # Fresh /\ Get(held, "phase") = Realtime) => ForumIds \subseteq BackfilledIds

\* C35: a session that is re-invoked with each state it was returned reaches
\* the realtime phase.
C35_ReachesRealtime == <>(held # Fresh /\ Get(held, "phase") = Realtime)

C35_Witness ==
  /\ held # Fresh
  /\ Get(held, "phase") = Realtime
  /\ Len(HistoricalCalls) >= 3
  /\ Len(forum.topics) >= 2

\* The topics created while the session held a state of phase ph (a session
\* that holds no state yet starts in the historical phase).
CreatedDuring(ph) ==
  {i \in 1..Len(forum.topics) :
     /\ forum.born[i] >= 0
     /\ IF forum.born[i] = 0 THEN ph = Historical
        ELSE log[forum.born[i]].next = ph}

\* The ids emitted by the calls of the session whose phase is in phs.
EmittedBy(phs) ==
  UNION {{log[i].ids[j] : j \in 1..Len(log[i].ids)} :
           i \in {k \in 1..Len(log) : log[k].phase \in phs}}

\* The session holds a realtime state whose watermark is above the creation
\* time of topic i: no later call can emit the topic, because a
\* realtime call emits only topics created after the watermark it was given
\* and the watermark never moves back.
BelowWatermark(i) ==
  /\ held # Fresh
  /\ Get(held, "phase") = Realtime
  /\ getTime(forum.topics[i].o.created_at.iso) < getTime(Get(held, "lastChecked").iso)

\* Every historical call of the session was answered 200.
HistoricalAnswered ==
  \A k \in 1..Len(log) : log[k].phase = Historical => log[k].outcomes = <<Answered(200)>>

\* C34: a topic created while the session was in the historical phase is
\* emitted by a call of the session; it is never left, not emitted, below
\* the watermark of the realtime phase.
C34_NoTopicLostAcrossPhases ==
  HistoricalAnswered =>
    \A i \in CreatedDuring(Historical) :
      BelowWatermark(i) => forum.topics[i].o.id.n \in EmittedBy({Historical, Realtime})

\* C36: a topic created after the session entered realtime is emitted by a
\* realtime call; it is never left, not emitted, below the watermark.
C36_NoTopicLostPolling ==
  HistoricalAnswered =>
    \A i \in CreatedDuring(Realtime) :
      BelowWatermark(i) => forum.topics[i].o.id.n \in EmittedBy({Realtime})

\* The ids call k of the session emitted.
IdsOf(k) == {log[k].ids[j] : j \in 1..Len(log[k].ids)}

\* C37: no topic emitted by a realtime call was emitted by an earlier
\* realtime call of the session.
C37_NoDuplicates ==
  \A k1, k2 \in 1..Len(log) :
    (k1 < k2 /\ log[k1].phase = Realtime /\ log[k2].phase = Realtime)
      => IdsOf(k1) \cap IdsOf(k2) = {}

C37_Witness ==
  \E k1, k2 \in 1..Len(log) :
    /\ k1 < k2
    /\ log[k1].phase = Realtime
    /\ log[k2].phase = Realtime
    /\ IdsOf(k1) # {}
    /\ IdsOf(k2) # {}

====
